---- MODULE Spec2Model ----
(***************************************************************************)
(* A model of the mvtr routing core (ellenhp/mot): the four evmap-backed   *)
(* maps of Graph, the writers ingest_tile and clear, and the Dijkstra      *)
(* search with its predecessor log.                                        *)
(*                                                                         *)
(* Graph::ingest_tile and Graph::clear take one map's mutex for one        *)
(* insert, purge or refresh and release it again, so every such operation  *)
(* is one atomic step of a writer.  A reader sees only what the last       *)
(* refresh of a map published.  The search reads the maps while it runs,   *)
(* one map per step.                                                       *)
(***************************************************************************)
EXTENDS Integers, Sequences, FiniteSets, Bags, TLC

(***************************************************************************)
(* Bounds of the model.                                                    *)
(***************************************************************************)
\* u64::MAX, the saturation point of ElapsedTime and TravelledDistance.
\* TLC's integers are 32 bits wide, so the model saturates at a smaller
\* value; every cost the bounded graphs produce stays far below it unless
\* a costing model hands out a cost built from it.
U64Max == 1000000000
\* u32::MAX, the greatest TravelSpeed and PartsPerMillion, scaled likewise.
U32Max == 2000000
\* Calls of ingest_tile and clear a behaviour makes.
MaxCalls == 3

WayIds == {1, 2, 3}

(***************************************************************************)
(* Option<T>: None is the empty sequence, Some(x) is <<x>>.                *)
(***************************************************************************)
None == << >>
Some(x) == <<x>>
IsSome(o) == Len(o) = 1
Unwrap(o) == o[1]

(***************************************************************************)
(* costing/units.rs                                                        *)
(***************************************************************************)
\* (u64::wrapping_add, for comparison.)
SatAddWrapping(a, b) == (a + b) % (U64Max + 1)

\* u64::saturating_add, the Add of ElapsedTime and of TravelledDistance.
SatAdd(a, b) == IF a > U64Max - b THEN U64Max ELSE a + b

\* (A division whose product saturates instead, for comparison.)
DivSpeedSaturating(distance_mm, um_per_ms) ==
    IF um_per_ms = 0 THEN None
    ELSE IF distance_mm > U64Max \div 1000 THEN Some(U64Max \div um_per_ms)
    ELSE Some((distance_mm * 1000) \div um_per_ms)

\* impl Div<TravelSpeed> for TravelledDistance: None on zero speed or when
\* distance_mm * 1000 overflows u64, else floor(distance_mm * 1000 / um_per_ms).
DivSpeed(distance_mm, um_per_ms) ==
    IF um_per_ms = 0 THEN None
    ELSE IF distance_mm > U64Max \div 1000 THEN None
    ELSE Some((distance_mm * 1000) \div um_per_ms)

\* (A product that saturates instead, for comparison.)
MulPpmSaturating(ms, ppm) ==
    IF ppm # 0 /\ ms > U64Max \div ppm THEN U64Max \div 1000000
    ELSE (ms * ppm) \div 1000000

\* impl Mul<PartsPerMillion> for ElapsedTime: zero on overflow of ms * ppm.
MulPpm(ms, ppm) ==
    IF ppm # 0 /\ ms > U64Max \div ppm THEN 0
    ELSE (ms * ppm) \div 1000000

(***************************************************************************)
(* costing/mod.rs: RoutingCost                                             *)
(***************************************************************************)
RoutingCost(c, a, d) == [cost_millis |-> c, actual_millis |-> a, distance_mm |-> d]

Zero == RoutingCost(0, 0, 0)

\* impl Add for RoutingCost: component-wise, each component saturating.
CostAdd(x, y) ==
    RoutingCost(SatAdd(x.cost_millis, y.cost_millis),
                SatAdd(x.actual_millis, y.actual_millis),
                SatAdd(x.distance_mm, y.distance_mm))

\* impl PartialOrd for RoutingCost: lexicographic on
\* (cost_millis, actual_millis, distance_mm).
CostLess(x, y) ==
    \/ x.cost_millis < y.cost_millis
    \/ /\ x.cost_millis = y.cost_millis
       /\ \/ x.actual_millis < y.actual_millis
          \/ /\ x.actual_millis = y.actual_millis
             /\ x.distance_mm < y.distance_mm

CostLeq(x, y) == x = y \/ CostLess(x, y)

\* (A penalty added to actual_millis instead, for comparison.)
WithPenaltyOnActual(x, penalty_millis) ==
    RoutingCost(x.cost_millis, SatAdd(x.actual_millis, penalty_millis), x.distance_mm)

\* RoutingCost::with_penalty: only cost_millis grows.
WithPenalty(x, penalty_millis) ==
    RoutingCost(SatAdd(x.cost_millis, penalty_millis), x.actual_millis, x.distance_mm)

\* RoutingCost::with_additional: all three components grow.
WithAdditional(x, actual_millis, distance_mm) ==
    RoutingCost(SatAdd(x.cost_millis, actual_millis),
                SatAdd(x.actual_millis, actual_millis),
                SatAdd(x.distance_mm, distance_mm))

(***************************************************************************)
(* costing/mod.rs: WayCoster                                               *)
(***************************************************************************)
WayCoster(sf, sr, pf, pr) ==
    [speed_forward |-> sf, speed_reverse |-> sr,
     penalty_ppm_forward |-> pf, penalty_ppm_reverse |-> pr]

\* WayCoster::impassable
Impassable == WayCoster(None, None, None, None)

\* WayCoster::estimate_speed
EstimateSpeed(coster, direction) ==
    IF direction = "Forward" THEN coster.speed_forward ELSE coster.speed_reverse

\* WayCoster::estimate_time_ms: distance / self.estimate_speed(direction)?
EstimateTimeMs(coster, distance, direction) ==
    LET speed == EstimateSpeed(coster, direction)
    IN  IF IsSome(speed) THEN DivSpeed(distance, Unwrap(speed)) ELSE None

\* WayCoster::cost_way_segment
CostWaySegment(coster, distance, direction) ==
    LET ppm_opt == IF direction = "Forward" THEN coster.penalty_ppm_forward
                   ELSE coster.penalty_ppm_reverse
        penalty_ppm == IF IsSome(ppm_opt) THEN Unwrap(ppm_opt) ELSE 0
        travel_time_ms == EstimateTimeMs(coster, distance, direction)
    IN  IF IsSome(travel_time_ms)
        THEN LET t == Unwrap(travel_time_ms)
             IN  Some(RoutingCost(SatAdd(t, MulPpm(t, penalty_ppm)), t, distance))
        ELSE None

(***************************************************************************)
(* graph.rs: the data of the graph                                         *)
(***************************************************************************)
\* struct SearchNode
SearchNode(way, distance_along_way_mm) ==
    [way |-> way, distance_along_way_mm |-> distance_along_way_mm]

\* impl PartialOrd for SearchNode (derived): by way, then by distance.
NodeLess(a, b) ==
    \/ a.way < b.way
    \/ a.way = b.way /\ a.distance_along_way_mm < b.distance_along_way_mm

\* struct WayTransition
WayTransition(from_way_id, distance_along_way_mm, to_way_id, to_mm) ==
    [from_way_id |-> from_way_id, distance_along_way_mm |-> distance_along_way_mm,
     to_way_id |-> to_way_id, transition_to_distance_along_way_mm |-> to_mm]

\* struct CostedWayTransition
CostedWayTransition(to_way_id, cost) == [to_way_id |-> to_way_id, cost |-> cost]

(***************************************************************************)
(* evmap: a map from keys to bags of values, with a write side that stages *)
(* operations and a read side that shows what the last refresh published.  *)
(* A map is a bag of <<key, value>> pairs.                                 *)
(***************************************************************************)
MapNames == {"ways", "geometry", "transitions", "nodes"}

\* (An insert that adds nothing when the key already has the value, for
\* comparison.)
InsertOnce(map, key, value) ==
    IF BagIn(<<key, value>>, map) THEN map ELSE map (+) SetToBag({<<key, value>>})

\* WriteHandle::insert: one more copy of the value in the key's bag.
Insert(map, key, value) == map (+) SetToBag({<<key, value>>})

\* (A purge that drops nothing, for comparison.)
PurgeKeepsAll(map) == map

\* WriteHandle::purge: every value-bag is dropped.
Purge(map) == EmptyBag

\* ReadHandle::get: the values stored under a key (empty: no entry).
Get(map, key) == {e[2] : e \in {x \in BagToSet(map) : x[1] = key}}

\* ReadHandle::contains_key
ContainsKey(map, key) == Get(map, key) # {}

\* The keys of a map.
Keys(map) == {e[1] : e \in BagToSet(map)}

\* The bag of values under a key, as a function from value to copies.
ValueBag(map, key) == [v \in Get(map, key) |-> CopiesIn(<<key, v>>, map)]

(***************************************************************************)
(* Tiles: the decoded content of the two byte blobs given to ingest_tile.  *)
(* A property that is absent, or not of the required type, is None.        *)
(* Distances are held in millimetres, as meters_to_mm_fixed returns them.  *)
(***************************************************************************)
Road(way_id, geom) == [way_id |-> way_id, geom |-> geom]

Inter(way_id, distance_along_way, transition_to_way, to_distance) ==
    [way_id |-> way_id, transition_to_way |-> transition_to_way,
     distance_along_way |-> distance_along_way,
     transition_to_distance_along_way |-> to_distance]

Tile(name, ways_valid, roads, nodes_valid, inters) ==
    [name |-> name, ways_valid |-> ways_valid, roads |-> roads,
     nodes_valid |-> nodes_valid, inters |-> inters]

\* Three ways; way 1 carries two intersections, to way 2 and, further on, to
\* way 3; way 2 leads to way 3 as well; way 3 leads back to the far end of
\* way 1.
TileMain ==
    Tile("main", TRUE,
         Some(<<Road(Some(1), "line"), Road(Some(2), "line"), Road(Some(3), "line")>>),
         TRUE,
         Some(<<Inter(Some(1), Some(1), Some(2), Some(0)),
                Inter(Some(1), Some(2), Some(3), Some(0)),
                Inter(Some(2), Some(1), Some(3), Some(0)),
                Inter(Some(3), Some(2), Some(1), Some(3))>>))

\* Two ways and one intersection between them.
TileSmall ==
    Tile("small", TRUE,
         Some(<<Road(Some(1), "line"), Road(Some(2), "line")>>),
         TRUE,
         Some(<<Inter(Some(1), Some(1), Some(2), Some(0))>>))

\* As TileSmall, with way 2 drawn as a MultiLineString of two linestrings.
TileMulti ==
    Tile("multi", TRUE,
         Some(<<Road(Some(1), "line"), Road(Some(2), "multi2")>>),
         TRUE,
         Some(<<Inter(Some(1), Some(1), Some(2), Some(0))>>))

\* An intersection whose from-way has no feature in the roads layer.
TileOrphan ==
    Tile("orphan", TRUE,
         Some(<<Road(Some(2), "line")>>),
         TRUE,
         Some(<<Inter(Some(3), Some(1), Some(2), Some(0))>>))

\* The second intersection feature lacks transition_to_way.
TileBadProp ==
    Tile("badprop", TRUE,
         Some(<<Road(Some(1), "line"), Road(Some(2), "line")>>),
         TRUE,
         Some(<<Inter(Some(2), Some(1), Some(1), Some(0)),
                Inter(Some(1), Some(1), None, Some(0))>>))

\* Neither a roads layer nor an intersections layer.
TileEmpty == Tile("empty", TRUE, None, TRUE, None)

\* Bytes that are no vector tile.
TileInvalid == Tile("invalid", FALSE, None, FALSE, None)

(***************************************************************************)
(* Costing models: what cost_way and cost_intersection return.             *)
(*   way[w]            the WayCoster for the tags of way w                 *)
(*   trans[<<f, t>>]   the cost of turning from way f into way t, None     *)
(*                     when the result has no entry for t                  *)
(*   cont[f]           continue_cost at the intersections of way f         *)
(*   extra             to_way_ids the result names besides those asked for *)
(***************************************************************************)
CostingModelOf(way, trans, cont, extra) ==
    [way |-> way, trans |-> trans, cont |-> cont, extra |-> extra]

WayPairs == WayIds \X WayIds

\* Speed 1000 um/ms in both directions (1 mm per ms), no penalty.
Walk == WayCoster(Some(1000), Some(1000), None, None)
\* A slower way (400 um/ms, so that the division floors) with a penalty of
\* one half of the travel time.
Slow == WayCoster(Some(400), Some(400), Some(500000), Some(500000))
\* Forward only.
OneWay == WayCoster(Some(1000), None, None, None)

\* pedestrian_costing_model: one speed for every way, every transition and
\* every continuation at zero cost (TransitionCostResult::zero).
Pedestrian ==
    CostingModelOf([w \in WayIds |-> Walk], [p \in WayPairs |-> Some(Zero)],
                   [w \in WayIds |-> Some(Zero)], {})

(***************************************************************************)
(* State                                                                   *)
(***************************************************************************)
VARIABLES
    wmap,      \* the write side of the four maps: every operation staged so far
    rmap,      \* the read side of the four maps: what readers see
    writer,    \* per writer thread: the call of ingest_tile or clear it is in
               \* (or made last), what that call has staged, and (before)
               \* what readers saw when it began
    calls,     \* calls of ingest_tile and clear begun so far
    hist,      \* the completed calls, in order, with their results
    search,    \* the call of search_djikstra in progress, or its result, and
               \* (at) the calls that had returned when it began
    conf,      \* what the environment may do (fixed by the initial state)
    crashed    \* a panic has ended the program

vars == <<wmap, rmap, writer, calls, hist, search, conf, crashed>>

Writers == {1, 2}

EmptyMaps == [m \in MapNames |-> EmptyBag]

NoGroups == [n \in {} |-> << >>]

IdleWriter ==
    [op |-> "none", pc |-> "idle", tile |-> TileEmpty, cm |-> Pedestrian, idx |-> 0,
     way_tags |-> {}, groups |-> NoGroups, staged |-> EmptyMaps,
     before |-> EmptyMaps]

IdleSearch ==
    [pc |-> "idle", start |-> SearchNode(0, 0), end |-> SearchNode(0, 0),
     frontier |-> {}, costs |-> NoGroups, step_log |-> << >>,
     state |-> << >>, all_nodes |-> {}, groups |-> NoGroups,
     route |-> << >>, result |-> "none", cost |-> Zero, at |-> << >>]

WriterBusy(w) == writer[w].pc # "idle"
SearchBusy == search.pc \notin {"idle", "done"}

\* (Operations that take no mutex, for comparison.)
MayBeginUnlocked == ~crashed

\* The host binding takes the global GRAPH mutex around every operation
\* (demo-app/src/routing.rs); a program that shares the Graph between
\* threads does not.
MayBegin == ~crashed /\ (conf.serial => (~SearchBusy /\ \A w \in Writers : ~WriterBusy(w)))

(***************************************************************************)
(* Graph::ingest_tile                                                      *)
(***************************************************************************)
\* CostingModel::cost_way for the tags of a way.
CostWay(cm, way) == cm.way[way]

\* (cost_intersection given the first transition of the group only, for
\* comparison.)
CostIntersectionOfFirst(cm, node, group) ==
    [transition_costs |->
        [t \in {u \in {group[1].to_way_id} : IsSome(cm.trans[<<node.way, u>>])} |->
            Unwrap(cm.trans[<<node.way, t>>])],
     continue_cost |-> cm.cont[node.way]]

\* CostingModel::cost_intersection for the group of transitions that leave
\* one search node.
CostIntersection(cm, node, group) ==
    LET asked == {group[i].to_way_id : i \in DOMAIN group}
        named == {t \in asked : IsSome(cm.trans[<<node.way, t>>])} \cup cm.extra
    IN  [transition_costs |->
            [t \in named |-> IF IsSome(cm.trans[<<node.way, t>>])
                             THEN Unwrap(cm.trans[<<node.way, t>>]) ELSE Zero],
         continue_cost |-> cm.cont[node.way]]

\* The match on feature.geometry: a polyline for a LineString or a
\* MultiLineString of one linestring, otherwise the feature is left.
GeometryOf(tile, idx) ==
    IF Unwrap(tile.roads)[idx].geom \in {"line", "multi1"}
    THEN Some([tile |-> tile.name, road |-> idx]) ELSE None

\* Where ingest_tile stands once the roads layer is done: the nodes blob is
\* opened and its intersections layer looked up.
GroupsOrRefresh(wr) ==
    IF DOMAIN wr.groups = {} THEN [wr EXCEPT !.pc = "refresh", !.idx = 1]
    ELSE [wr EXCEPT !.pc = "group", !.idx = 0]

EnterNodes(wr) ==
    IF ~wr.tile.nodes_valid THEN [wr EXCEPT !.pc = "return_err"]
    ELSE IF IsSome(wr.tile.inters) /\ Len(Unwrap(wr.tile.inters)) > 0
         THEN [wr EXCEPT !.pc = "inter", !.idx = 1]
         ELSE [wr EXCEPT !.pc = "refresh", !.idx = 1]

NextRoad(wr) ==
    IF wr.idx < Len(Unwrap(wr.tile.roads))
    THEN [wr EXCEPT !.pc = "road_way", !.idx = wr.idx + 1]
    ELSE EnterNodes(wr)

NextInter(wr) ==
    IF wr.idx < Len(Unwrap(wr.tile.inters))
    THEN [wr EXCEPT !.idx = wr.idx + 1]
    ELSE GroupsOrRefresh(wr)

\* (A call that reports an error whatever it did, for comparison.)
CompletedReportsError(wr) ==
    [op |-> wr.op, tile |-> wr.tile.name, cm |-> wr.cm, res |-> "err"]

\* The record of a call that returned.
Completed(wr) ==
    [op |-> wr.op, tile |-> wr.tile.name, cm |-> wr.cm,
     res |-> IF wr.pc = "return_ok" THEN "ok" ELSE "err"]

\* The writer goes on with its call, or the call returns.
Settle(w, wr) ==
    IF wr.pc \in {"return_ok", "return_err"}
    THEN /\ writer' = [writer EXCEPT ![w] = [IdleWriter EXCEPT !.staged = wr.staged,
                                                              !.before = wr.before]]
         /\ hist' = Append(hist, Completed(wr))
    ELSE /\ writer' = [writer EXCEPT ![w] = wr]
         /\ UNCHANGED hist

\* The call up to the first feature: both blobs are decoded only when
\* their turn comes; invalid bytes of the ways blob end the call at once.
BeginIngest(tile, cm) ==
    LET wr == [IdleWriter EXCEPT !.op = "ingest", !.tile = tile, !.cm = cm]
    IN  IF ~tile.ways_valid THEN [wr EXCEPT !.pc = "return_err"]
        ELSE IF IsSome(tile.roads) /\ Len(Unwrap(tile.roads)) > 0
             THEN [wr EXCEPT !.pc = "road_way", !.idx = 1]
             ELSE EnterNodes(wr)

\* One feature of the roads layer, up to ways_write.insert: way_id is read
\* (an error when it is missing), cost_way is called, the WayCoster is
\* staged; a geometry that is no single linestring ends the feature here.
RoadWayStep(wm, wr) ==
    LET feature == Unwrap(wr.tile.roads)[wr.idx]
    IN  IF ~IsSome(feature.way_id)
        THEN [wm |-> wm, wr |-> [wr EXCEPT !.pc = "return_err"]]
        ELSE LET way_id == Unwrap(feature.way_id)
                 way_cost == CostWay(wr.cm, way_id)
                 wr1 == [wr EXCEPT !.way_tags = @ \cup {way_id},
                                   !.staged.ways = Insert(@, way_id, way_cost)]
             IN  [wm |-> [wm EXCEPT !.ways = Insert(@, way_id, way_cost)],
                  wr |-> IF IsSome(GeometryOf(wr.tile, wr.idx))
                         THEN [wr1 EXCEPT !.pc = "road_geom"]
                         ELSE NextRoad(wr1)]

\* The same feature: geometry_write.insert of its polyline.
RoadGeomStep(wm, wr) ==
    LET way_id == Unwrap(Unwrap(wr.tile.roads)[wr.idx].way_id)
        polyline == Unwrap(GeometryOf(wr.tile, wr.idx))
    IN  [wm |-> [wm EXCEPT !.geometry = Insert(@, way_id, polyline)],
         wr |-> NextRoad([wr EXCEPT !.staged.geometry = Insert(@, way_id, polyline)])]

\* (The node filed under the way the transition leads to, for comparison.)
NodesKeyToWay(from_way_id, to_way_id) == to_way_id

\* The key of nodes_write.insert: the way the search node lies on.
NodesKey(from_way_id, to_way_id) == from_way_id

\* (Only the way the transition leaves looked up, for comparison.)
FromWayTagged(way_tags, from_way_id, to_way_id) == from_way_id \in way_tags

\* (way_tags.get(&from_way_id), way_tags.get(&to_way_id)) are both Some.
BothWaysTagged(way_tags, from_way_id, to_way_id) ==
    from_way_id \in way_tags /\ to_way_id \in way_tags

\* One feature of the intersections layer: its four properties are read (an
\* error when one is missing), its search node goes into the nodes map, and
\* its transition joins the group of that node when both ways have tags.
InterStep(wm, wr) ==
    LET feature == Unwrap(wr.tile.inters)[wr.idx]
    IN  IF \/ ~IsSome(feature.way_id)
           \/ ~IsSome(feature.transition_to_way)
           \/ ~IsSome(feature.distance_along_way)
           \/ ~IsSome(feature.transition_to_distance_along_way)
        THEN [wm |-> wm, wr |-> [wr EXCEPT !.pc = "return_err"]]
        ELSE LET from_way_id == Unwrap(feature.way_id)
                 to_way_id == Unwrap(feature.transition_to_way)
                 search_node == SearchNode(from_way_id, Unwrap(feature.distance_along_way))
                 way_transition ==
                     WayTransition(from_way_id, Unwrap(feature.distance_along_way),
                                   to_way_id,
                                   Unwrap(feature.transition_to_distance_along_way))
                 wr1 == [wr EXCEPT !.staged.nodes = Insert(@, NodesKey(from_way_id, to_way_id), search_node)]
                 wr2 == IF BothWaysTagged(wr.way_tags, from_way_id, to_way_id)
                        THEN [wr1 EXCEPT !.groups =
                                 IF search_node \in DOMAIN wr.groups
                                 THEN [wr.groups EXCEPT ![search_node] =
                                          Append(@, way_transition)]
                                 ELSE wr.groups @@ (search_node :> <<way_transition>>)]
                        ELSE wr1
             IN  [wm |-> [wm EXCEPT !.nodes = Insert(@, NodesKey(from_way_id, to_way_id), search_node)],
                  wr |-> NextInter(wr2)]

\* way_transition_lookup: the last transition of the group to each way.
WayTransitionLookup(group) ==
    [t \in {group[i].to_way_id : i \in DOMAIN group} |->
        group[CHOOSE i \in DOMAIN group :
                /\ group[i].to_way_id = t
                /\ \A j \in DOMAIN group : group[j].to_way_id = t => j <= i]]

\* (No identity transition, for comparison.)
GroupEntriesWithoutIdentity(search_node, lookup, costs) ==
    SetToBag({<<search_node,
                [costed |-> CostedWayTransition(t, costs.transition_costs[t]),
                 transition |-> lookup[t]]>> : t \in DOMAIN costs.transition_costs})

\* The pairs stored for one group: one per entry of transition_costs, and
\* the identity transition when the result has a continue_cost.
GroupEntries(search_node, lookup, costs) ==
    SetToBag({<<search_node,
                [costed |-> CostedWayTransition(t, costs.transition_costs[t]),
                 transition |-> lookup[t]]>> : t \in DOMAIN costs.transition_costs})
    (+) (IF IsSome(costs.continue_cost)
         THEN SetToBag({<<search_node,
                 [costed |-> CostedWayTransition(search_node.way, Unwrap(costs.continue_cost)),
                  transition |-> WayTransition(search_node.way,
                                               search_node.distance_along_way_mm,
                                               search_node.way,
                                               search_node.distance_along_way_mm)]>>})
         ELSE EmptyBag)

\* One group of transition_groups: cost_intersection, then
\* transitions_write.insert for what it returned.
\* way_transition_lookup.get(to_way_id).unwrap() panics on a to_way_id that
\* is not of the group.
GroupStep(wm, wr, search_node) ==
    LET group == wr.groups[search_node]
        lookup == WayTransitionLookup(group)
        costs == CostIntersection(wr.cm, search_node, group)
    IN  IF DOMAIN costs.transition_costs \subseteq DOMAIN lookup
        THEN LET entries == GroupEntries(search_node, lookup, costs)
                 rest == [n \in DOMAIN wr.groups \ {search_node} |-> wr.groups[n]]
             IN  [wm |-> [wm EXCEPT !.transitions = @ (+) entries],
                  wr |-> GroupsOrRefresh([wr EXCEPT !.groups = rest,
                                                    !.staged.transitions = @ (+) entries])]
        ELSE [wm |-> wm, wr |-> [wr EXCEPT !.pc = "panic"]]

IngestBegin(w) ==
    /\ MayBegin /\ ~WriterBusy(w) /\ w \in conf.writers
    /\ calls < MaxCalls
    /\ \E load \in conf.loads :
         Settle(w, [BeginIngest(load[1], load[2]) EXCEPT !.before = rmap])
    /\ calls' = calls + 1
    /\ UNCHANGED <<wmap, rmap, search, conf, crashed>>

IngestRoadWay(w) ==
    /\ ~crashed /\ writer[w].pc = "road_way"
    /\ LET step == RoadWayStep(wmap, writer[w])
       IN  wmap' = step.wm /\ Settle(w, step.wr)
    /\ UNCHANGED <<rmap, calls, search, conf, crashed>>

IngestRoadGeom(w) ==
    /\ ~crashed /\ writer[w].pc = "road_geom"
    /\ LET step == RoadGeomStep(wmap, writer[w])
       IN  wmap' = step.wm /\ Settle(w, step.wr)
    /\ UNCHANGED <<rmap, calls, search, conf, crashed>>

IngestInter(w) ==
    /\ ~crashed /\ writer[w].pc = "inter"
    /\ LET step == InterStep(wmap, writer[w])
       IN  wmap' = step.wm /\ Settle(w, step.wr)
    /\ UNCHANGED <<rmap, calls, search, conf, crashed>>

\* transition_groups is a HashMap: its groups come in any order.
IngestGroup(w) ==
    /\ ~crashed /\ writer[w].pc = "group"
    /\ \E search_node \in DOMAIN writer[w].groups :
         LET step == GroupStep(wmap, writer[w], search_node)
         IN  IF step.wr.pc = "panic"
             THEN crashed' = TRUE /\ UNCHANGED <<wmap, writer, hist>>
             ELSE wmap' = step.wm /\ Settle(w, step.wr) /\ UNCHANGED crashed
    /\ UNCHANGED <<rmap, calls, search, conf>>

\* (The reverse order, for comparison.)
RefreshOrderGraphFirst == <<"nodes", "transitions", "geometry", "ways">>

\* The order of the four refreshes that end ingest_tile.
RefreshOrder == <<"ways", "geometry", "transitions", "nodes">>

\* (A refresh that publishes nothing, for comparison.)
RefreshPublishesNothing(wm, rm, m) == rm

\* WriteHandle::refresh: readers see everything staged so far.
Refresh(wm, rm, m) == [rm EXCEPT ![m] = wm[m]]

IngestRefresh(w) ==
    /\ ~crashed /\ writer[w].pc = "refresh"
    /\ LET wr == writer[w]
       IN  /\ rmap' = Refresh(wmap, rmap, RefreshOrder[wr.idx])
           /\ Settle(w, IF wr.idx < Len(RefreshOrder)
                        THEN [wr EXCEPT !.idx = wr.idx + 1]
                        ELSE [wr EXCEPT !.pc = "return_ok"])
    /\ UNCHANGED <<wmap, calls, search, conf, crashed>>

(***************************************************************************)
(* Graph::clear                                                            *)
(***************************************************************************)
\* The order of the four purges and of the four refreshes of clear.
ClearOrder == <<"ways", "geometry", "transitions", "nodes">>

ClearBegin(w) ==
    /\ MayBegin /\ ~WriterBusy(w) /\ w \in conf.writers
    /\ calls < MaxCalls
    /\ conf.clear
    /\ writer' = [writer EXCEPT ![w] = [IdleWriter EXCEPT !.op = "clear", !.pc = "purge",
                                                          !.idx = 1, !.before = rmap]]
    /\ calls' = calls + 1
    /\ UNCHANGED <<wmap, rmap, hist, search, conf, crashed>>

ClearPurge(w) ==
    /\ ~crashed /\ writer[w].pc = "purge"
    /\ LET wr == writer[w]
           m == ClearOrder[wr.idx]
       IN  /\ wmap' = [wmap EXCEPT ![m] = Purge(@)]
           /\ writer' = [writer EXCEPT ![w] =
                            IF wr.idx < Len(ClearOrder) THEN [wr EXCEPT !.idx = wr.idx + 1]
                            ELSE [wr EXCEPT !.pc = "clear_refresh", !.idx = 1]]
    /\ UNCHANGED <<rmap, calls, hist, search, conf, crashed>>

ClearRefresh(w) ==
    /\ ~crashed /\ writer[w].pc = "clear_refresh"
    /\ LET wr == writer[w]
       IN  /\ rmap' = Refresh(wmap, rmap, ClearOrder[wr.idx])
           /\ Settle(w, IF wr.idx < Len(ClearOrder)
                        THEN [wr EXCEPT !.idx = wr.idx + 1]
                        ELSE [wr EXCEPT !.pc = "return_ok"])
    /\ UNCHANGED <<wmap, calls, search, conf, crashed>>

(***************************************************************************)
(* Graph::search_djikstra                                                  *)
(***************************************************************************)
\* (A state whose previous is its own idx, for comparison.)
SearchStateOwnPrevious(previous, idx, node, via, cost) ==
    [previous |-> idx, idx |-> idx, node |-> node, via |-> via, cost |-> cost]

\* struct SearchState
SearchState(previous, idx, node, via, cost) ==
    [previous |-> previous, idx |-> idx, node |-> node, via |-> via, cost |-> cost]

\* (The order of a max-heap on the cost alone, for comparison.)
StateGreaterByCostOnly(a, b) == CostLess(b.cost, a.cost)

\* impl PartialOrd for SearchState: a > b when a costs less, or costs the
\* same and has the greater node.
StateGreater(a, b) ==
    \/ CostLess(a.cost, b.cost)
    \/ a.cost = b.cost /\ NodeLess(b.node, a.node)

\* (A pop that takes any state of the frontier, for comparison.)
IsAnyOfFrontier(frontier, st) == st \in frontier

\* BinaryHeap::pop: a greatest state of the frontier.
IsTop(frontier, st) == st \in frontier /\ \A other \in frontier : ~StateGreater(other, st)

\* The orders in which the pairs of a value-bag can come out of it.
RECURSIVE Orders(_)
Orders(bag) ==
    IF DOMAIN bag = {} THEN {<< >>}
    ELSE UNION {
           LET rest == IF bag[v] = 1 THEN [x \in DOMAIN bag \ {v} |-> bag[x]]
                       ELSE [bag EXCEPT ![v] = @ - 1]
           IN  {<<v>> \o o : o \in Orders(rest)}
           : v \in DOMAIN bag}

\* The three groups an expansion looks at, each None or Some(via): the
\* stored node equal to the state's node, the first one greater, the last
\* one less.
IdentityGroup(all_nodes, node) ==
    IF node \in all_nodes THEN Some(node) ELSE None

\* (The last stored node after the node, for comparison.)
LastGroupAfter(all_nodes, node) ==
    LET after == {n \in all_nodes : NodeLess(node, n)}
    IN  IF after = {} THEN None
        ELSE Some(CHOOSE n \in after : \A m \in after : ~NodeLess(n, m))

FirstGroupAfter(all_nodes, node) ==
    LET after == {n \in all_nodes : NodeLess(node, n)}
    IN  IF after = {} THEN None
        ELSE Some(CHOOSE n \in after : \A m \in after : ~NodeLess(m, n))

FirstGroupBefore(all_nodes, node) ==
    LET before == {n \in all_nodes : NodeLess(n, node)}
    IN  IF before = {} THEN None
        ELSE Some(CHOOSE n \in before : \A m \in before : ~NodeLess(n, m))

SelectGroup(kind, all_nodes, node) ==
    CASE kind = "identity" -> IdentityGroup(all_nodes, node)
      [] kind = "after" -> FirstGroupAfter(all_nodes, node)
      [] kind = "before" -> FirstGroupBefore(all_nodes, node)

\* The distance and the direction of the way segment from the state's node
\* to via (process_transition_set).
SegmentDistance(node, via) ==
    IF node.distance_along_way_mm >= via.distance_along_way_mm
    THEN node.distance_along_way_mm - via.distance_along_way_mm
    ELSE via.distance_along_way_mm - node.distance_along_way_mm

\* (A zero-length segment taken as Forward, for comparison.)
SegmentDirectionZeroForward(node, via) ==
    IF node.distance_along_way_mm <= via.distance_along_way_mm THEN "Forward" ELSE "Reverse"

SegmentDirection(node, via) ==
    IF node.distance_along_way_mm < via.distance_along_way_mm THEN "Forward" ELSE "Reverse"

\* (A test that lets an equal cost pass, for comparison.)
ImprovesOrEqual(costs, new_state) ==
    new_state.node \in DOMAIN costs => CostLeq(new_state.cost, costs[new_state.node])

\* The test that guards the three pushes of process_transition_set.
Improves(costs, new_state) ==
    new_state.node \in DOMAIN costs => CostLess(new_state.cost, costs[new_state.node])

\* The loop of process_transition_set over the pairs of one group, in the
\* order they came out of the bag; acc holds frontier, costs and step_log.
RECURSIVE Relax(_, _, _, _, _)
Relax(pairs, via, state, new_cost, acc) ==
    IF pairs = << >> THEN acc
    ELSE LET pair == Head(pairs)
             new_node == SearchNode(pair.transition.to_way_id,
                                    pair.transition.transition_to_distance_along_way_mm)
             new_state == SearchState(state.idx, Len(acc.step_log), new_node, via,
                                      CostAdd(new_cost, pair.costed.cost))
         IN  Relax(Tail(pairs), via, state, new_cost,
                   IF Improves(acc.costs, new_state)
                   THEN [frontier |-> acc.frontier \cup {new_state},
                         costs |-> (new_node :> new_state.cost) @@ acc.costs,
                         step_log |-> Append(acc.step_log, new_state)]
                   ELSE acc)

\* unwind_route: the chain of previous links from end_step to the root, the
\* root first; empty when a state comes twice.
RECURSIVE UnwindFrom(_, _, _)
UnwindFrom(step_log, cursor, seen) ==
    IF cursor + 1 \notin DOMAIN step_log THEN [cycle |-> FALSE, steps |-> << >>]
    ELSE LET step == step_log[cursor + 1]
         IN  IF step \in seen THEN [cycle |-> TRUE, steps |-> << >>]
             ELSE IF step.previous = step.idx THEN [cycle |-> FALSE, steps |-> <<step>>]
             ELSE LET rest == UnwindFrom(step_log, step.previous, seen \cup {step})
                  IN  [rest EXCEPT !.steps = Append(@, step)]

UnwindRoute(step_log, end_step) ==
    LET unwound == UnwindFrom(step_log, end_step, {})
    IN  IF unwound.cycle THEN << >> ELSE unwound.steps

\* The assert_eq of unwind_route on every adjacent pair of the route.
UnwindAssert(steps) ==
    \A i \in 1..(Len(steps) - 1) :
        SegmentDistance(steps[i].node, steps[i + 1].via)
            = steps[i + 1].cost.distance_mm - steps[i].cost.distance_mm

\* The first of the three groups, from kind on, that the expansion has.
KindsFrom(kind) ==
    CASE kind = "identity" -> <<"identity", "after", "before">>
      [] kind = "after" -> <<"after", "before">>
      [] kind = "before" -> <<"before">>
      [] OTHER -> << >>

RECURSIVE NextPc(_, _, _)
NextPc(kinds, all_nodes, node) ==
    IF kinds = << >> THEN "pop"
    ELSE IF IsSome(SelectGroup(Head(kinds), all_nodes, node)) THEN Head(kinds)
    ELSE NextPc(Tail(kinds), all_nodes, node)

\* The call: the root state goes on the frontier and into step_log, not
\* into costs.  A search changes nothing in the graph, so a behaviour makes
\* one search, at any point between or during the calls of the writers.
SearchBegin ==
    /\ MayBegin /\ search.pc = "idle"
    /\ \E start \in conf.starts, end \in conf.ends :
         LET first_state == SearchState(0, 0, start, start, Zero)
         IN  search' = [IdleSearch EXCEPT !.pc = "pop", !.start = start, !.end = end,
                                          !.at = hist,
                                          !.frontier = {first_state},
                                          !.step_log = <<first_state>>]
    /\ UNCHANGED <<wmap, rmap, writer, calls, hist, conf, crashed>>

\* while let Some(state) = frontier.pop(): the frontier is empty (None),
\* or the state is the end (unwind_route), or its way's nodes are read.
SearchPop ==
    /\ ~crashed /\ search.pc = "pop"
    /\ IF search.frontier = {}
       THEN /\ search' = [search EXCEPT !.pc = "done", !.result = "none"]
            /\ UNCHANGED crashed
       ELSE \E state \in search.frontier :
              /\ IsTop(search.frontier, state)
              /\ IF state.node = search.end
                 THEN LET steps == UnwindRoute(search.step_log, state.idx)
                      IN  IF UnwindAssert(steps)
                          THEN /\ search' = [search EXCEPT !.pc = "polyline",
                                                !.frontier = @ \ {state},
                                                !.state = <<state>>, !.route = steps]
                               /\ UNCHANGED crashed
                          ELSE /\ search' = [search EXCEPT !.pc = "done",
                                                !.frontier = @ \ {state},
                                                !.state = <<state>>, !.result = "panic"]
                               /\ crashed' = TRUE
                 ELSE /\ search' = [search EXCEPT !.pc = "read",
                                       !.frontier = @ \ {state}, !.state = <<state>>,
                                       !.all_nodes = Get(rmap.nodes, state.node.way)]
                      /\ UNCHANGED crashed
    /\ UNCHANGED <<wmap, rmap, writer, calls, hist, conf>>

\* The transitions of every node of all_nodes are read into
\* transition_groups, and the three groups are picked.
SearchRead ==
    /\ ~crashed /\ search.pc = "read"
    /\ search' = [search EXCEPT
                    !.groups = [n \in search.all_nodes |-> ValueBag(rmap.transitions, n)],
                    !.pc = NextPc(KindsFrom("identity"), search.all_nodes,
                                  search.state[1].node)]
    /\ UNCHANGED <<wmap, rmap, writer, calls, hist, conf, crashed>>

\* process_transition_set for one of the three groups: the way's coster is
\* read (expect: a panic when there is none), the segment is costed, and
\* the pairs of the group are relaxed.
SearchProcess(kind) ==
    /\ ~crashed /\ search.pc = kind
    /\ LET state == search.state[1]
           via == Unwrap(SelectGroup(kind, search.all_nodes, state.node))
           costers == Get(rmap.ways, state.node.way)
           next == NextPc(Tail(KindsFrom(kind)), search.all_nodes, state.node)
       IN  IF costers = {}
           THEN /\ search' = [search EXCEPT !.pc = "done", !.result = "panic"]
                /\ crashed' = TRUE
           ELSE /\ \E coster \in costers, pairs \in Orders(search.groups[via]) :
                     LET segment_cost ==
                             CostWaySegment(coster, SegmentDistance(state.node, via),
                                            SegmentDirection(state.node, via))
                         acc == [frontier |-> search.frontier, costs |-> search.costs,
                                 step_log |-> search.step_log]
                         new == IF IsSome(segment_cost)
                                THEN Relax(pairs, via, state,
                                           CostAdd(state.cost, Unwrap(segment_cost)), acc)
                                ELSE acc
                     IN  search' = [search EXCEPT !.pc = next,
                                       !.frontier = new.frontier, !.costs = new.costs,
                                       !.step_log = new.step_log]
                /\ UNCHANGED crashed
    /\ UNCHANGED <<wmap, rmap, writer, calls, hist, conf>>

\* search_djikstra after search_djikstra_inner returned the route: the cost
\* of the last state, and the polyline of the way of every state but the
\* last (get_polyline(..)?: no route when one is missing).
SearchPolyline ==
    /\ ~crashed /\ search.pc = "polyline"
    /\ LET states == search.route
       IN  IF states = << >>
           THEN search' = [search EXCEPT !.pc = "done", !.result = "none"]
           ELSE IF \A i \in 1..(Len(states) - 1) :
                      ContainsKey(rmap.geometry, states[i].node.way)
                THEN search' = [search EXCEPT !.pc = "done", !.result = "route",
                                              !.cost = states[Len(states)].cost]
                ELSE search' = [search EXCEPT !.pc = "done", !.result = "none"]
    /\ UNCHANGED <<wmap, rmap, writer, calls, hist, conf, crashed>>

(***************************************************************************)
(* The program as the host drives it: one writer, and every operation      *)
(* under the global mutex.                                                 *)
(***************************************************************************)
\* A costing model whose transitions carry penalties and that lets no
\* route continue along a way past an intersection.
Penalising ==
    CostingModelOf([w \in WayIds |-> IF w = 2 THEN Slow ELSE Walk],
                   [p \in WayPairs |-> Some(WithPenalty(Zero, 2))],
                   [w \in WayIds |-> None], {})

\* The calls of ingest_tile the host makes: a tile and a costing model.
HostLoads ==
    {<<TileSmall, Pedestrian>>, <<TileSmall, Penalising>>, <<TileMulti, Pedestrian>>,
     <<TileOrphan, Pedestrian>>, <<TileBadProp, Pedestrian>>, <<TileEmpty, Pedestrian>>,
     <<TileInvalid, Pedestrian>>}
HostStarts == {SearchNode(1, 0), SearchNode(3, 0)}
HostEnds == {SearchNode(2, 0), SearchNode(3, 0)}

Init ==
    /\ wmap = EmptyMaps
    /\ rmap = EmptyMaps
    /\ writer = [w \in Writers |-> IdleWriter]
    /\ calls = 0
    /\ hist = << >>
    /\ search = IdleSearch
    /\ conf = [serial |-> TRUE, writers |-> {1}, clear |-> TRUE, loads |-> HostLoads,
               starts |-> HostStarts, ends |-> HostEnds]
    /\ crashed = FALSE

Next ==
    \/ \E w \in Writers : IngestBegin(w)
    \/ \E w \in Writers : IngestRoadWay(w)
    \/ \E w \in Writers : IngestRoadGeom(w)
    \/ \E w \in Writers : IngestInter(w)
    \/ \E w \in Writers : IngestGroup(w)
    \/ \E w \in Writers : IngestRefresh(w)
    \/ \E w \in Writers : ClearBegin(w)
    \/ \E w \in Writers : ClearPurge(w)
    \/ \E w \in Writers : ClearRefresh(w)
    \/ SearchBegin
    \/ SearchPop
    \/ SearchRead
    \/ SearchProcess("identity")
    \/ SearchProcess("after")
    \/ SearchProcess("before")
    \/ SearchPolyline

Spec == Init /\ [][Next]_vars

(***************************************************************************)
(* A search on a graph that one call of ingest_tile has built.             *)
(***************************************************************************)
\* ingest_tile from its first feature to its first refresh, the groups of
\* transition_groups taken in one of their orders (they write to disjoint
\* keys, so the staged maps do not depend on the order).
RECURSIVE RunIngest(_, _)
RunIngest(wm, wr) ==
    CASE wr.pc = "road_way" ->
           LET step == RoadWayStep(wm, wr) IN RunIngest(step.wm, step.wr)
      [] wr.pc = "road_geom" ->
           LET step == RoadGeomStep(wm, wr) IN RunIngest(step.wm, step.wr)
      [] wr.pc = "inter" ->
           LET step == InterStep(wm, wr) IN RunIngest(step.wm, step.wr)
      [] wr.pc = "group" ->
           LET step == GroupStep(wm, wr, CHOOSE n \in DOMAIN wr.groups : TRUE)
           IN  RunIngest(step.wm, step.wr)
      [] OTHER -> [wm |-> wm, wr |-> wr]

\* A whole call of ingest_tile on an empty graph.
Ingested(tile, cm) == RunIngest(EmptyMaps, BeginIngest(tile, cm))

\* Way 2 is slow; turning from way 1 into way 3 costs 5 ms, turning from
\* way 3 into way 1 carries a penalty of u64::MAX ms; continuing is free.
Toll ==
    CostingModelOf([w \in WayIds |-> IF w = 2 THEN Slow ELSE Walk],
                   [p \in WayPairs |->
                       CASE p = <<1, 3>> -> Some(WithPenalty(Zero, 5))
                         [] p = <<3, 1>> -> Some(WithPenalty(Zero, U64Max))
                         [] OTHER -> Some(Zero)],
                   [w \in WayIds |-> Some(Zero)], {})

\* Way 2 is slow; every transition and every continuation is free.
Detour ==
    CostingModelOf([w \in WayIds |-> IF w = 2 THEN Slow ELSE Walk],
                   [p \in WayPairs |-> Some(Zero)],
                   [w \in WayIds |-> Some(Zero)], {})

\* Way 1 can be travelled forward only; every transition and every
\* continuation is free.
OneWayStreet ==
    CostingModelOf([w \in WayIds |-> IF w = 1 THEN OneWay ELSE Walk],
                   [p \in WayPairs |-> Some(Zero)],
                   [w \in WayIds |-> Some(Zero)], {})

SearchCms == {Pedestrian, Penalising, Toll, Detour, OneWayStreet}
SearchStarts == {SearchNode(1, 0), SearchNode(1, 2), SearchNode(2, 0)}
SearchEnds == {SearchNode(3, 0), SearchNode(1, 3), SearchNode(3, 1), SearchNode(2, 0)}

SearchInit(cms) ==
    /\ \E cm \in cms :
         LET built == Ingested(TileMain, cm)
         IN  /\ built.wr.pc = "refresh"
             /\ wmap = built.wm
             /\ rmap = built.wm
             /\ writer = [w \in Writers |->
                            IF w = 1 THEN [IdleWriter EXCEPT !.staged = built.wr.staged]
                            ELSE IdleWriter]
             /\ hist = <<Completed([built.wr EXCEPT !.pc = "return_ok"])>>
    /\ calls = 1
    /\ search = IdleSearch
    /\ conf = [serial |-> TRUE, writers |-> {}, clear |-> FALSE, loads |-> {},
               starts |-> SearchStarts, ends |-> SearchEnds]
    /\ crashed = FALSE

InitSearch == SearchInit(SearchCms)

NextSearch ==
    \/ SearchBegin
    \/ SearchPop
    \/ SearchRead
    \/ SearchProcess("identity")
    \/ SearchProcess("after")
    \/ SearchProcess("before")
    \/ SearchPolyline

SpecSearch == InitSearch /\ [][NextSearch]_vars

(***************************************************************************)
(* A search and a clear on two threads that share the Graph, without the   *)
(* host's mutex.                                                           *)
(***************************************************************************)
RaceCms == {Pedestrian, Detour}
RaceStarts == {SearchNode(1, 0), SearchNode(1, 2)}
RaceEnds == {SearchNode(3, 0), SearchNode(2, 0)}

InitRace ==
    /\ \E cm \in RaceCms :
         LET built == Ingested(TileMain, cm)
         IN  /\ built.wr.pc = "refresh"
             /\ wmap = built.wm
             /\ rmap = built.wm
             /\ writer = [w \in Writers |->
                            IF w = 1 THEN [IdleWriter EXCEPT !.staged = built.wr.staged]
                            ELSE IdleWriter]
             /\ hist = <<Completed([built.wr EXCEPT !.pc = "return_ok"])>>
    /\ calls = 1
    /\ search = IdleSearch
    /\ conf = [serial |-> FALSE, writers |-> {1}, clear |-> TRUE, loads |-> {},
               starts |-> RaceStarts, ends |-> RaceEnds]
    /\ crashed = FALSE

NextRace ==
    \/ \E w \in Writers : ClearBegin(w)
    \/ \E w \in Writers : ClearPurge(w)
    \/ \E w \in Writers : ClearRefresh(w)
    \/ SearchBegin
    \/ SearchPop
    \/ SearchRead
    \/ SearchProcess("identity")
    \/ SearchProcess("after")
    \/ SearchProcess("before")
    \/ SearchPolyline

SpecRace == InitRace /\ [][NextRace]_vars

(***************************************************************************)
(* The hops of the search as a graph over search nodes, and the costs of   *)
(* its paths.  With sweep a hop may go by every stored node of the way,    *)
(* without it only by the three groups the search looks at.                *)
(***************************************************************************)
GroupKinds == {"identity", "after", "before"}

Vias(maps, node, sweep) ==
    LET all_nodes == Get(maps.nodes, node.way)
    IN  IF sweep THEN all_nodes
        ELSE {Unwrap(SelectGroup(kind, all_nodes, node)) :
                kind \in {k \in GroupKinds : IsSome(SelectGroup(k, all_nodes, node))}}

\* One hop from node: along the way to via, then one transition stored there.
Hops(maps, node, sweep) ==
    UNION {UNION {
        LET segment_cost == CostWaySegment(coster, SegmentDistance(node, via),
                                           SegmentDirection(node, via))
        IN  IF IsSome(segment_cost)
            THEN {<<SearchNode(pair.transition.to_way_id,
                               pair.transition.transition_to_distance_along_way_mm),
                    CostAdd(Unwrap(segment_cost), pair.costed.cost)>> :
                    pair \in Get(maps.transitions, via)}
            ELSE {}
        : coster \in Get(maps.ways, node.way)} : via \in Vias(maps, node, sweep)}

\* The <<node, cost>> pairs of the paths of at most hops hops that extend
\* the paths of reach.
RECURSIVE PathsWithin(_, _, _, _)
PathsWithin(maps, sweep, reach, hops) ==
    IF hops = 0 THEN reach
    ELSE LET further ==
                 reach \cup UNION {{<<hop[1], CostAdd(path[2], hop[2])>> :
                                      hop \in Hops(maps, path[1], sweep)} : path \in reach}
         IN  IF further = reach THEN reach
             ELSE PathsWithin(maps, sweep, further, hops - 1)

\* Every path without a repeated node has fewer hops than there are nodes,
\* and dropping a loop from a path never raises its cost.
Paths(maps, sweep, start) ==
    PathsWithin(maps, sweep, {<<start, Zero>>}, Cardinality(BagToSet(maps.transitions)) + 1)

PathCosts(maps, sweep, start, end) ==
    {path[2] : path \in {p \in Paths(maps, sweep, start) : p[1] = end}}

LeastCost(costs) == CHOOSE c \in costs : \A d \in costs : CostLeq(c, d)

Unsaturated(cost) ==
    /\ cost.cost_millis < U64Max
    /\ cost.actual_millis < U64Max
    /\ cost.distance_mm < U64Max

\* No cost the search computed has a component at u64::MAX.
SearchUnsaturated == \A i \in DOMAIN search.step_log : Unsaturated(search.step_log[i].cost)

ReturnedRoute == search.pc = "done" /\ search.result = "route"

\* No call of a writer has begun since the search began.
GraphAsSearched == hist = search.at /\ \A w \in Writers : ~WriterBusy(w)

(***************************************************************************)
(* Properties of the publication of a tile (specification Spec).           *)
(***************************************************************************)
NoClearRunning == \A w \in Writers : writer[w].op # "clear"

\* C1: in every state a reader can observe while ingest_tile runs and after
\* it returned, with no clear running, every search node that has an entry
\* in the visible transitions map has a WayCoster for its way in the
\* visible ways map.
TransitionSourcesHaveCosters ==
    NoClearRunning =>
        \A search_node \in Keys(rmap.transitions) : ContainsKey(rmap.ways, search_node.way)

\* The case of C1: ingest_tile has refreshed the transitions and has not
\* yet refreshed the nodes.
TransitionsVisibleBeforeNodes ==
    \E w \in Writers :
        /\ writer[w].op = "ingest" /\ writer[w].pc = "refresh"
        /\ rmap.transitions # EmptyBag
        /\ rmap.nodes # wmap.nodes

\* The last call that returned is an ingest_tile that returned Ok, and no
\* call has begun since.
IngestReturnedOk ==
    /\ hist # << >>
    /\ hist[Len(hist)].op = "ingest" /\ hist[Len(hist)].res = "ok"
    /\ \A w \in Writers : ~WriterBusy(w)

\* C2: after ingest_tile returned, every to_way_id of every visible
\* transition has a WayCoster in the ways map and a polyline in the
\* geometry map.
ToWaysHaveCosterAndPolyline ==
    IngestReturnedOk =>
        \A entry \in BagToSet(rmap.transitions) :
            /\ ContainsKey(rmap.ways, entry[2].transition.to_way_id)
            /\ ContainsKey(rmap.geometry, entry[2].transition.to_way_id)

\* A map shows the running call's entries, or holds them back.
TileIn(w, m) == writer[w].staged[m] # EmptyBag /\ rmap[m] = wmap[m]
TileOut(w, m) == writer[w].staged[m] # EmptyBag /\ rmap[m] # wmap[m]

\* C8 as stated: while ingest_tile runs a reader sees the tile's entries in
\* all of the four maps or in none of them.
TileAllOrNone ==
    \A w \in Writers :
        writer[w].op = "ingest" =>
            ~ \E m1, m2 \in MapNames : TileIn(w, m1) /\ TileOut(w, m2)

PublicationOrder == <<"ways", "geometry", "transitions", "nodes">>

\* C8: while ingest_tile runs a reader sees the tile's entries map by map,
\* in the order ways, geometry, transitions, nodes: a map shows them only
\* when every earlier map that has some shows them too.
TileVisibleInRefreshOrder ==
    \A w \in Writers :
        writer[w].op = "ingest" =>
            \A i, j \in DOMAIN PublicationOrder :
                i < j /\ TileIn(w, PublicationOrder[j]) => ~TileOut(w, PublicationOrder[i])

\* The case of C8: the ways and the polylines of the tile are visible, its
\* transitions and nodes are not.
TileHalfVisible ==
    \E w \in Writers :
        /\ writer[w].op = "ingest"
        /\ TileIn(w, "ways") /\ TileIn(w, "geometry")
        /\ TileOut(w, "transitions") /\ TileOut(w, "nodes")

(***************************************************************************)
(* Properties of the ways a search ends (specification Spec).              *)
(***************************************************************************)
\* C5: the loop of the search ends by popping the end node (a route, or no
\* route when a polyline is missing) or by emptying the frontier (no
\* route); the call ends in no other way.
SearchEndsByGoalOrExhaustion ==
    search.pc = "done" => search.result \in {"route", "none"}

NoTransitionLeadsTo(maps, way) ==
    \A entry \in BagToSet(maps.transitions) : entry[2].transition.to_way_id # way

\* C6: a search on a graph in which no stored transition leads to the way
\* of the end returns None, whatever the start (stated here for the starts
\* that are not the end itself).
UnreachableGoalGivesNone ==
    (/\ search.pc = "done" /\ GraphAsSearched
     /\ search.start # search.end
     /\ NoTransitionLeadsTo(rmap, search.end.way))
        => search.result = "none"

\* The calls that had returned end with a clear that came after an
\* ingest_tile, and with no ingest_tile that returned Ok after that clear.
ClearedAfterIngest(calls_made) ==
    \E i, j \in DOMAIN calls_made :
        /\ i < j
        /\ calls_made[i].op = "ingest"
        /\ calls_made[j].op = "clear"
        /\ \A k \in DOMAIN calls_made :
               k > j => ~(calls_made[k].op = "ingest" /\ calls_made[k].res = "ok")

\* C10 as stated: a search made after ingest_tile and clear, with no tile
\* ingested since, returns None for every start and every end.
SearchAfterClearGivesNone ==
    (search.pc = "done" /\ ClearedAfterIngest(search.at)) => search.result = "none"

\* C10: a search made after ingest_tile and clear, with no tile ingested
\* since, returns None for every start and every end that differ.
SearchAfterClearGivesNoneUnlessTrivial ==
    (search.pc = "done" /\ ClearedAfterIngest(search.at) /\ search.start # search.end)
        => search.result = "none"

\* The case of C10: a tile that gave a route from the start to the end was
\* ingested and cleared, and a search from that start to that end is done.
SearchedAfterClear ==
    /\ search.pc = "done"
    /\ search.start = SearchNode(1, 0) /\ search.end = SearchNode(2, 0)
    /\ Len(search.at) = 2
    /\ search.at[1].op = "ingest" /\ search.at[1].tile = "small" /\ search.at[1].res = "ok"
    /\ search.at[2].op = "clear"

(***************************************************************************)
(* Properties of the route a search returns (specification SpecSearch).    *)
(***************************************************************************)
CostOfLeastPath(sweep) == LeastCost(PathCosts(rmap, sweep, search.start, search.end))

\* C3 as stated: the cost of a returned route is the cost of the state that
\* ended the search, and the least cost, in the lexicographic order, of
\* the paths of three-group hops from the start to the end.
ReturnedCostIsLeast ==
    ReturnedRoute =>
        /\ search.cost = search.state[1].cost
        /\ search.cost = CostOfLeastPath(FALSE)

\* C3: the same, for the searches in which no computed cost has a
\* component at u64::MAX.
ReturnedCostIsLeastUnsaturated ==
    (ReturnedRoute /\ SearchUnsaturated) =>
        /\ search.cost = search.state[1].cost
        /\ search.cost = CostOfLeastPath(FALSE)

\* The case of C3: a route is returned, no cost saturated, and the paths
\* from the start to the end have more than one cost.
ReturnedLeastOfSeveral ==
    /\ ReturnedRoute /\ SearchUnsaturated
    /\ Cardinality(PathCosts(rmap, FALSE, search.start, search.end)) > 1
    /\ Len(search.route) > 2

\* Every way of the graph has a positive speed in both directions.
PositiveSpeeds ==
    \A entry \in BagToSet(rmap.ways) :
        /\ IsSome(entry[2].speed_forward) /\ Unwrap(entry[2].speed_forward) > 0
        /\ IsSome(entry[2].speed_reverse) /\ Unwrap(entry[2].speed_reverse) > 0

\* Every stored search node carries an identity transition that costs
\* nothing.
FreeContinuation ==
    \A entry \in BagToSet(rmap.nodes) :
        \E pair \in Get(rmap.transitions, entry[2]) :
            /\ pair.transition.to_way_id = entry[2].way
            /\ pair.transition.transition_to_distance_along_way_mm
                   = entry[2].distance_along_way_mm
            /\ pair.costed.cost = Zero

MidWayEndOnReachedWay ==
    /\ search.end \notin Get(rmap.nodes, search.end.way)
    /\ \E path \in Paths(rmap, FALSE, search.start) : path[1].way = search.end.way

\* C7: a search whose end lies mid-way on a way that is reachable from the
\* start returns a route.
MidWayEndIsRouted ==
    (search.pc = "done" /\ MidWayEndOnReachedWay) => search.result = "route"

(***************************************************************************)
(* Properties of a search that races with clear (specification SpecRace).  *)
(***************************************************************************)
\* C9: a search that runs while clear purges and refreshes the maps ends
\* with None or with a route; it does not panic.
SearchSurvivesClear ==
    ~(search.pc = "done" /\ search.result = "panic" /\ hist # << >>)

(***************************************************************************)
(* What a call of ingest_tile leaves visible (specification Spec).         *)
(***************************************************************************)
\* The last call that returned, and whether any call of a writer runs.
LastCall == hist[Len(hist)]
NoWriterRuns == \A w \in Writers : ~WriterBusy(w)

\* The tile and the costing model of a call of ingest_tile in hist.
LoadOf(call) ==
    CHOOSE load \in conf.loads : load[1].name = call.tile /\ load[2] = call.cm

\* What readers see after one call of ingest_tile on a fresh graph: all
\* that the call staged when it reached its refreshes, nothing when it
\* returned an error.
VisibleAfterOne(tile, cm) ==
    LET built == Ingested(tile, cm)
    IN  IF built.wr.pc = "refresh" THEN built.wm ELSE EmptyMaps

\* The last three calls were ingest_tile(T), clear(), ingest_tile(T) with
\* one costing model, whatever came before them, and no call runs.
IngestClearIngest ==
    /\ Len(hist) >= 3 /\ NoWriterRuns
    /\ LET first == hist[Len(hist) - 2]
           second == hist[Len(hist) - 1]
       IN  /\ first.op = "ingest" /\ second.op = "clear" /\ LastCall.op = "ingest"
           /\ first.tile = LastCall.tile /\ first.cm = LastCall.cm

\* C11: after ingest_tile(T); clear(); ingest_tile(T) the readers see, in
\* each of the four maps, exactly what one ingest_tile(T) on a fresh graph
\* makes visible (a search reads nothing but these maps).
IngestClearIngestAsOneIngest ==
    IngestClearIngest =>
        LET load == LoadOf(LastCall) IN rmap = VisibleAfterOne(load[1], load[2])

\* The case of C11 on a tile with ways and an intersection.
IngestClearIngestDone ==
    /\ IngestClearIngest /\ LastCall.res = "ok"
    /\ rmap.transitions # EmptyBag /\ rmap.nodes # EmptyBag

\* A call of ingest_tile has returned an error and no call has begun since.
IngestJustFailed ==
    /\ hist # << >> /\ NoWriterRuns
    /\ LastCall.op = "ingest" /\ LastCall.res = "err"

\* C12: a call of ingest_tile that returns an error has refreshed no map:
\* the readers see what they saw when the call began.
FailedIngestPublishesNothing ==
    IngestJustFailed => \A w \in conf.writers : rmap = writer[w].before

\* The case of C12: a feature of the intersections layer lacked a
\* property after the call had staged entries, on a graph that was not
\* empty.
FailedIngestAfterStaging ==
    /\ IngestJustFailed /\ LastCall.tile = "badprop"
    /\ rmap.ways # EmptyBag /\ wmap.ways # rmap.ways

\* A call of ingest_tile on the tile without layers has returned and no
\* call has begun since.
EmptyTileJustIngested ==
    /\ hist # << >> /\ NoWriterRuns
    /\ LastCall.op = "ingest" /\ LastCall.tile = "empty"

\* C13: ingest_tile on a tile with neither layer returns Ok and leaves what
\* the readers see unchanged, whatever came before it.
EmptyTileChangesNothing ==
    EmptyTileJustIngested =>
        /\ LastCall.res = "ok"
        /\ \A w \in conf.writers : rmap = writer[w].before

(***************************************************************************)
(* Two runs of one search (specification SpecSearch).  The reference run   *)
(* takes the pairs of every bag in one fixed order; a search of the model  *)
(* takes them in any order.                                                *)
(***************************************************************************)
RECURSIVE ExpandInOrder(_, _, _, _, _)
ExpandInOrder(maps, all_nodes, state, kinds, acc) ==
    IF kinds = << >> THEN acc
    ELSE LET via_opt == SelectGroup(Head(kinds), all_nodes, state.node)
         IN  IF ~IsSome(via_opt)
             THEN ExpandInOrder(maps, all_nodes, state, Tail(kinds), acc)
             ELSE LET via == Unwrap(via_opt)
                      coster == CHOOSE c \in Get(maps.ways, state.node.way) : TRUE
                      pairs == CHOOSE o \in Orders(ValueBag(maps.transitions, via)) : TRUE
                      segment_cost ==
                          CostWaySegment(coster, SegmentDistance(state.node, via),
                                         SegmentDirection(state.node, via))
                  IN  ExpandInOrder(maps, all_nodes, state, Tail(kinds),
                          IF IsSome(segment_cost)
                          THEN Relax(pairs, via, state,
                                     CostAdd(state.cost, Unwrap(segment_cost)), acc)
                          ELSE acc)

RECURSIVE SearchInOrder(_, _, _)
SearchInOrder(maps, end, acc) ==
    IF acc.frontier = {} THEN [result |-> "none", route |-> << >>]
    ELSE LET state == CHOOSE st \in acc.frontier : IsTop(acc.frontier, st)
             rest == [acc EXCEPT !.frontier = @ \ {state}]
         IN  IF state.node = end
             THEN [result |-> "route", route |-> UnwindRoute(acc.step_log, state.idx)]
             ELSE SearchInOrder(maps, end,
                      ExpandInOrder(maps, Get(maps.nodes, state.node.way), state,
                                    KindsFrom("identity"), rest))

\* The run of the search in progress that takes every bag in the fixed
\* order.
ReferenceRun ==
    LET first_state == SearchState(0, 0, search.start, search.start, Zero)
    IN  SearchInOrder(rmap, search.end,
                      [frontier |-> {first_state}, costs |-> NoGroups,
                       step_log |-> <<first_state>>])

\* What a route shows of its states: the node, the group it was reached
\* through, and the cost; not the positions in step_log.
Trail(route) ==
    [i \in DOMAIN route |->
        [node |-> route[i].node, via |-> route[i].via, cost |-> route[i].cost]]

SearchReturned == search.pc = "done" /\ search.result \in {"route", "none"}

RunningOperations ==
    {<<"writer", w>> : w \in {x \in Writers : WriterBusy(x)}}
        \cup (IF SearchBusy THEN {<<"search", 0>>} ELSE {})

\* C15: every host operation holds the global mutex from its first step to
\* its return, so at most one of them is in progress: no search overlaps a
\* call of ingest_tile or clear.
HostOperationsExcludeEachOther ==
    /\ Cardinality(RunningOperations) <= 1
    /\ ~(SearchBusy /\ \E w \in Writers : WriterBusy(w))

\* The case of C15: a search that ran between two calls of the writers,
\* the second of which is in progress.
SearchBetweenWriterCalls ==
    /\ search.pc = "done" /\ search.result = "route"
    /\ search.at # << >>
    /\ \E w \in Writers : WriterBusy(w) /\ writer[w].pc = "refresh"

(***************************************************************************)
(* The costing functions on their own (specification SpecCosting): the     *)
(* initial state draws the arguments of one application (conf.input), the  *)
(* action applies the function and records the result in hist.             *)
(***************************************************************************)
\* f64 as u32: the fraction is cut off, and the cast saturates.
CastU32(n) == IF n < 0 THEN 0 ELSE IF n > U32Max THEN U32Max ELSE n

\* TravelSpeed::from_meters_per_second.  The model holds a speed the host
\* returns as its count of half micrometers per millisecond, so that
\* speeds between two values of TravelSpeed exist.
FromMetersPerSecond(half_um_per_ms) == CastU32(half_um_per_ms \div 2)

\* PartsPerMillion::from_fraction, as JsCostingModel::cost_way calls it
\* (the sources do not hold its definition).  The model holds a fraction
\* as its count of millionths.
FromFraction(millionths) == CastU32(millionths)

\* Option::map with the two conversions.
MapSpeed(o) == IF IsSome(o) THEN Some(FromMetersPerSecond(Unwrap(o))) ELSE None
MapFraction(o) == IF IsSome(o) THEN Some(FromFraction(Unwrap(o))) ELSE None

\* What the cost_way callback of the host hands back: the call throws, or
\* its value does not fit JsWayCoster, or it is a JsWayCoster.
JsWayCoster(outcome, sf, sr, pf, pr) ==
    [outcome |-> outcome,
     speed_forward_meters_per_second |-> sf, speed_reverse_meters_per_second |-> sr,
     time_penalty_fraction_forward |-> pf, time_penalty_fraction_reverse |-> pr]

\* JsCostingModel::cost_way
JsCostWay(js) ==
    IF js.outcome = "value"
    THEN WayCoster(MapSpeed(js.speed_forward_meters_per_second),
                   MapSpeed(js.speed_forward_meters_per_second),
                   MapFraction(js.time_penalty_fraction_forward),
                   MapFraction(js.time_penalty_fraction_reverse))
    ELSE Impassable

\* The arguments the applications are checked on.
JsSpeeds == {None, Some(-2800), Some(0), Some(1), Some(2800), Some(2801),
             Some(2 * U32Max + 2)}
JsFractions == {None, Some(0), Some(200000)}
JsInputs ==
    {[fn |-> "cost_way", js |-> JsWayCoster(outcome, sf, sr, pf, pr)] :
        outcome \in {"value"}, sf \in JsSpeeds, sr \in JsSpeeds,
        pf \in JsFractions, pr \in JsFractions}
    \cup {[fn |-> "cost_way", js |-> JsWayCoster(outcome, Some(2800), None, None, None)] :
            outcome \in {"throws", "mismatch"}}

Magnitudes == {0, 1, U64Max \div 2 + 1, U64Max}
Costs == {RoutingCost(c, a, d) : c \in Magnitudes, a \in Magnitudes, d \in Magnitudes}
AddInputs == {[fn |-> "add", x |-> x, y |-> y] : x \in Costs, y \in Costs}

Distances == {0, 1, 7, 999, 1400, (U64Max \div 1000) - 1, U64Max \div 1000,
              (U64Max \div 1000) + 1, U64Max}
Speeds == {0, 1, 3, 1000, 1400, U32Max}
DivInputs ==
    {[fn |-> "div", distance_mm |-> d, um_per_ms |-> v] : d \in Distances, v \in Speeds}

CosterSpeeds == {None, Some(0), Some(1), Some(1400)}
CosterPpms == {None, Some(0), Some(1), Some(500000), Some(U32Max)}
SegmentInputs ==
    {[fn |-> "cost_way_segment", coster |-> WayCoster(sf, sr, pf, pr),
      distance |-> d, direction |-> dir] :
        sf \in CosterSpeeds, sr \in CosterSpeeds, pf \in CosterPpms, pr \in CosterPpms,
        d \in Distances, dir \in {"Forward", "Reverse"}}

InitCosting ==
    /\ wmap = EmptyMaps
    /\ rmap = EmptyMaps
    /\ writer = [w \in Writers |-> IdleWriter]
    /\ calls = 0
    /\ hist = << >>
    /\ search = IdleSearch
    /\ \E input \in JsInputs \cup AddInputs \cup DivInputs \cup SegmentInputs :
         conf = [serial |-> TRUE, writers |-> {}, clear |-> FALSE, loads |-> {},
                 starts |-> {}, ends |-> {}, input |-> input]
    /\ crashed = FALSE

\* One application: the result goes into hist.
Applied(fn, out) ==
    /\ hist = << >> /\ conf.input.fn = fn
    /\ hist' = <<[op |-> fn, out |-> out]>>
    /\ UNCHANGED <<wmap, rmap, writer, calls, search, conf, crashed>>

ApplyCostWay == Applied("cost_way", JsCostWay(conf.input.js))
ApplyAdd == Applied("add", CostAdd(conf.input.x, conf.input.y))
ApplyDiv == Applied("div", DivSpeed(conf.input.distance_mm, conf.input.um_per_ms))
ApplyCostWaySegment ==
    Applied("cost_way_segment",
            CostWaySegment(conf.input.coster, conf.input.distance, conf.input.direction))

NextCosting ==
    \/ ApplyCostWay
    \/ ApplyAdd
    \/ ApplyDiv
    \/ ApplyCostWaySegment

SpecCosting == InitCosting /\ [][NextCosting]_vars

\* An application of fn has returned.
Returned(fn) == hist # << >> /\ hist[1].op = fn

\* C16: the WayCoster built from the host's cost_way result has a reverse
\* speed exactly when speed_reverse_meters_per_second is present, computed
\* from that field whatever the forward speed is; a result with a forward
\* speed only is impassable in reverse.
ReverseSpeedFromReverseField ==
    (Returned("cost_way") /\ conf.input.js.outcome = "value") =>
        hist[1].out.speed_reverse
            = MapSpeed(conf.input.js.speed_reverse_meters_per_second)

\* a * b is more than u64::MAX.
MulOverflows(a, b) == b # 0 /\ a > U64Max \div b

\* C18: for all RoutingCost a and b, a + b >= a and a + b >= b in the
\* lexicographic order, and a + b = b + a.
AddGrowsAndCommutes ==
    Returned("add") =>
        /\ CostLeq(conf.input.x, hist[1].out)
        /\ CostLeq(conf.input.y, hist[1].out)
        /\ hist[1].out = CostAdd(conf.input.y, conf.input.x)

\* The case of C18 where a component saturates.
AddSaturated ==
    /\ Returned("add")
    /\ conf.input.x.cost_millis < U64Max /\ conf.input.y.cost_millis < U64Max
    /\ conf.input.x.cost_millis + conf.input.y.cost_millis > U64Max
    /\ hist[1].out.cost_millis = U64Max

\* C19: distance / speed is None exactly when the speed is 0 or
\* distance_mm * 1000 overflows u64, and else the floor of
\* distance_mm * 1000 / um_per_ms.
DivIsNoneOrFloor ==
    Returned("div") =>
        LET d == conf.input.distance_mm
            v == conf.input.um_per_ms
        IN  IF v = 0 \/ MulOverflows(d, 1000)
            THEN hist[1].out = None
            ELSE /\ IsSome(hist[1].out)
                 /\ Unwrap(hist[1].out) * v <= d * 1000
                 /\ d * 1000 < Unwrap(hist[1].out) * v + v

\* The case of C19 where the product overflows.
DivOverflowed ==
    /\ Returned("div") /\ conf.input.um_per_ms # 0
    /\ MulOverflows(conf.input.distance_mm, 1000)

\* C20: cost_way_segment(d, dir) is None when the coster has no speed in
\* dir or the division fails; else it is (t + p, t, d) with
\* t = floor(d * 1000 / speed), p = floor(t * ppm / 1000000), ppm 0 when
\* the coster has none, and p = 0 when t * ppm overflows u64.  The sum is
\* the sum of ElapsedTime, which saturates.
SegmentCostIsTimePlusPenalty ==
    Returned("cost_way_segment") =>
        LET coster == conf.input.coster
            d == conf.input.distance
            forward == conf.input.direction = "Forward"
            speed == IF forward THEN coster.speed_forward ELSE coster.speed_reverse
            ppm_opt == IF forward THEN coster.penalty_ppm_forward
                       ELSE coster.penalty_ppm_reverse
            ppm == IF IsSome(ppm_opt) THEN Unwrap(ppm_opt) ELSE 0
        IN  IF ~IsSome(speed) \/ Unwrap(speed) = 0 \/ MulOverflows(d, 1000)
            THEN hist[1].out = None
            ELSE LET t == (d * 1000) \div Unwrap(speed)
                     p == IF MulOverflows(t, ppm) THEN 0 ELSE (t * ppm) \div 1000000
                 IN  hist[1].out = Some(RoutingCost(SatAdd(t, p), t, d))

\* The case of C20 where t * ppm overflows.
SegmentPenaltyOverflowed ==
    /\ Returned("cost_way_segment") /\ IsSome(hist[1].out)
    /\ LET ppm_opt == IF conf.input.direction = "Forward"
                      THEN conf.input.coster.penalty_ppm_forward
                      ELSE conf.input.coster.penalty_ppm_reverse
       IN  /\ IsSome(ppm_opt)
           /\ MulOverflows(Unwrap(hist[1].out).actual_millis, Unwrap(ppm_opt))

(***************************************************************************)
(* Two threads in ingest_tile on one Graph (specification SpecWriters):    *)
(* every insert and every refresh takes the map's mutex for itself, so     *)
(* the steps of the two calls interleave.                                  *)
(***************************************************************************)
WriterLoads == {<<TileSmall, Pedestrian>>, <<TileEmpty, Pedestrian>>}

InitWriters ==
    /\ wmap = EmptyMaps
    /\ rmap = EmptyMaps
    /\ writer = [w \in Writers |-> IdleWriter]
    /\ calls = 0
    /\ hist = << >>
    /\ search = IdleSearch
    /\ conf = [serial |-> FALSE, writers |-> Writers, clear |-> FALSE,
               loads |-> WriterLoads, starts |-> {}, ends |-> {}]
    /\ crashed = FALSE

NextWriters ==
    \/ \E w \in Writers : IngestBegin(w)
    \/ \E w \in Writers : IngestRoadWay(w)
    \/ \E w \in Writers : IngestRoadGeom(w)
    \/ \E w \in Writers : IngestInter(w)
    \/ \E w \in Writers : IngestGroup(w)
    \/ \E w \in Writers : IngestRefresh(w)

SpecWriters == InitWriters /\ [][NextWriters]_vars

\* The writer is between its first insert and its first refresh.
Staging(w) ==
    /\ writer[w].op = "ingest"
    /\ writer[w].pc \in {"road_way", "road_geom", "inter", "group"}

\* C17: with two concurrent calls of ingest_tile, no refresh publishes
\* entries that the other call has staged while that call is still
\* staging: the readers see at most what the write handles hold without
\* the entries of a call that has not reached its refreshes.
RefreshPublishesNoPartlyStagedCall ==
    \A w \in Writers : \A m \in MapNames :
        Staging(w) => rmap[m] \sqsubseteq (wmap[m] (-) writer[w].staged[m])

(***************************************************************************)
(* The log of a search (specification SpecSearch).                         *)
(***************************************************************************)
\* The logged states but the root, by their place in step_log, and the
\* logged state that a logged state was reached from.
Logged == {i \in DOMAIN search.step_log : i > 1}
Predecessor(st) == search.step_log[st.previous + 1]

StrictlyBetween(n, a, b) ==
    \/ NodeLess(a, n) /\ NodeLess(n, b)
    \/ NodeLess(b, n) /\ NodeLess(n, a)

\* C21: an expansion relaxes the group at the state's node, the group at
\* the least stored node of the way after it and the group at the
\* greatest stored node before it, and no other: the via of every logged
\* state is a stored node of the way of its predecessor's node, and no
\* stored node of that way lies strictly between the predecessor's node
\* and the via.
ViaIsNearestStoredNode ==
    \A i \in Logged :
        LET st == search.step_log[i]
            stored == Get(rmap.nodes, Predecessor(st).node.way)
        IN  /\ st.via \in stored
            /\ \A n \in stored : ~StrictlyBetween(n, Predecessor(st).node, st.via)

\* The case of C21: the way has a stored node beyond the via.
NearerOfTwoStoredNodes ==
    \E i \in Logged :
        LET st == search.step_log[i]
        IN  \E n \in Get(rmap.nodes, Predecessor(st).node.way) :
              StrictlyBetween(st.via, Predecessor(st).node, n)

\* C22: a group is relaxed over the segment from the state's node to the
\* via: its length is the absolute difference of the two distances, its
\* direction is Forward exactly when the via lies further along the way,
\* and a way without a speed in that direction has the whole group
\* skipped.  So every logged state was reached over a segment the way's
\* coster has a speed for, and its distance and travel time are those of
\* its predecessor plus those of the segment (the transitions of the
\* costing models here add neither distance nor travel time).
LoggedOverPassableSegment ==
    \A i \in Logged :
        LET st == search.step_log[i]
            from == Predecessor(st).node.distance_along_way_mm
            to == st.via.distance_along_way_mm
            length == IF from >= to THEN from - to ELSE to - from
            before == Predecessor(st).cost
        IN  \E coster \in Get(rmap.ways, Predecessor(st).node.way) :
              LET speed == IF to > from THEN coster.speed_forward
                           ELSE coster.speed_reverse
              IN  /\ IsSome(speed) /\ Unwrap(speed) > 0
                  /\ st.cost.distance_mm = SatAdd(before.distance_mm, length)
                  /\ st.cost.actual_millis
                       = SatAdd(before.actual_millis, (length * 1000) \div Unwrap(speed))

\* The case of C22 where a group is skipped: the expansion of a state is
\* over, the state's node is a stored node with transitions, the way has
\* no speed in reverse, and nothing was logged through that group.
IdentityGroupSkipped ==
    /\ search.pc = "pop" /\ search.state # << >>
    /\ LET state == search.state[1]
       IN  /\ state.node \in search.all_nodes
           /\ DOMAIN search.groups[state.node] # {}
           /\ \A coster \in Get(rmap.ways, state.node.way) : ~IsSome(coster.speed_reverse)
           /\ \A i \in Logged : ~(/\ search.step_log[i].previous = state.idx
                                  /\ search.step_log[i].via = state.node)

\* The logged states, but the root, of one node.
LoggedAt(node) == {i \in Logged : search.step_log[i].node = node}

\* C23: a successor is pushed, recorded in costs and logged together, and
\* only when its node has no recorded cost or a strictly higher one: the
\* states on the frontier are logged states, the nodes with a recorded
\* cost are the nodes of the logged states, the logged states of one node
\* have strictly falling costs, and the recorded cost of a node is the
\* least cost among its logged states.
RecordedCostIsLeastLogged ==
    /\ \A st \in search.frontier :
         st.idx + 1 \in DOMAIN search.step_log /\ search.step_log[st.idx + 1] = st
    /\ DOMAIN search.costs = {search.step_log[i].node : i \in Logged}
    /\ \A node \in DOMAIN search.costs :
         /\ \E i \in LoggedAt(node) : search.step_log[i].cost = search.costs[node]
         /\ \A i \in LoggedAt(node) : CostLeq(search.costs[node], search.step_log[i].cost)
         /\ \A i, j \in LoggedAt(node) :
              i < j => CostLess(search.step_log[j].cost, search.step_log[i].cost)

\* The case of C23: a search is over in which a node was reached a second
\* time at a lower cost and logged again.
NodeReachedAgain ==
    /\ \E node \in DOMAIN search.costs : Cardinality(LoggedAt(node)) >= 2
    /\ search.pc = "done"

\* The search popped its end and unwound the route.
Unwound ==
    /\ search.pc \in {"polyline", "done"} /\ search.result # "panic"
    /\ search.state # << >> /\ search.state[1].node = search.end

\* C24: idx is the place in step_log (counted from 0), the root is the
\* first entry with previous = idx = 0, every other entry has
\* previous < idx; and unwind_route from the terminating state takes no
\* cycle branch and returns a list that starts with the root (the start
\* node at zero cost), ends with the terminating state, and links every
\* state to the one before it by previous.
LogIsChainedToRoot ==
    /\ \A i \in DOMAIN search.step_log : search.step_log[i].idx = i - 1
    /\ search.step_log # << >> =>
         /\ search.step_log[1].previous = 0
         /\ search.step_log[1].node = search.start
         /\ search.step_log[1].cost = Zero
    /\ \A i \in Logged : search.step_log[i].previous < search.step_log[i].idx
    /\ Unwound =>
         /\ ~UnwindFrom(search.step_log, search.state[1].idx, {}).cycle
         /\ search.route # << >>
         /\ search.route[1] = search.step_log[1]
         /\ search.route[Len(search.route)] = search.state[1]
         /\ \A k \in 1..(Len(search.route) - 1) :
              search.route[k + 1].previous = search.route[k].idx

\* The case of C24: a route of three states or more was unwound.
UnwoundSeveralSteps == Unwound /\ Len(search.route) >= 3

\* C25: the via of every logged state lies on the way of its
\* predecessor's node, and so for every adjacent pair (prev, next) of an
\* unwound route prev.node.way = next.via.way.
ViaOnPredecessorsWay ==
    /\ \A i \in Logged :
         search.step_log[i].via.way = Predecessor(search.step_log[i]).node.way
    /\ \A k \in 1..(Len(search.route) - 1) :
         search.route[k].node.way = search.route[k + 1].via.way

\* The case of C25: an unwound route that changes way twice.
UnwoundOverThreeWays ==
    /\ Unwound
    /\ Cardinality({search.route[k].node.way : k \in DOMAIN search.route}) >= 3

\* ---------------------------------------------------------------------
\* Transitions that cover ground (specification SpecCrossing)
\* ---------------------------------------------------------------------

\* Every way is walked; every turn from one way onto another is a crossing
\* that takes two milliseconds and covers one millimetre, a cost built
\* with RoutingCost::with_additional; continuing on a way is free.
Crossing ==
    CostingModelOf([w \in WayIds |-> Walk],
                   [p \in WayPairs |-> Some(WithAdditional(Zero, 2, 1))],
                   [w \in WayIds |-> Some(Zero)], {})

InitCrossing == SearchInit({Crossing})

SpecCrossing == InitCrossing /\ [][NextSearch]_vars

\* The search popped its end from the frontier and unwound the log.
EndPopped ==
    /\ search.state # << >>
    /\ search.state[1].node = search.end
    /\ search.pc \in {"polyline", "done"}

\* C26: in every search that reaches its goal the assert_eq of unwind_route
\* holds, and for every adjacent pair (prev, next) of the unwound route the
\* distance of the cost grows by |prev.node.distance - next.via.distance|.
\* (Violated under SpecCrossing: the cost of a crossing carries distance,
\* the assert_eq fails and the search panics.)
UnwindAssertNeverFails ==
    EndPopped =>
        /\ search.result # "panic"
        /\ \A k \in 1..(Len(search.route) - 1) :
              search.route[k + 1].cost.distance_mm - search.route[k].cost.distance_mm
                  = SegmentDistance(search.route[k].node, search.route[k + 1].via)

\* ---------------------------------------------------------------------
\* The transitions ingest_tile stores (specification SpecIngest)
\* ---------------------------------------------------------------------

\* Way 1 forks at 1 mm: to way 2, to way 3, and to way 2 once more, further
\* along way 2; way 2 leads back to way 1.
TileFork ==
    Tile("fork", TRUE,
         Some(<<Road(Some(1), "line"), Road(Some(2), "line"), Road(Some(3), "line")>>),
         TRUE,
         Some(<<Inter(Some(1), Some(1), Some(2), Some(0)),
                Inter(Some(1), Some(1), Some(3), Some(0)),
                Inter(Some(1), Some(1), Some(2), Some(2)),
                Inter(Some(2), Some(0), Some(1), Some(1))>>))

\* A costing model that leaves the turn from way 1 into way 3 out of its
\* result and lets no route continue along way 2 past an intersection.
Restricting ==
    CostingModelOf([w \in WayIds |-> Walk],
                   [p \in WayPairs |-> IF p = <<1, 3>> THEN None
                                       ELSE Some(WithPenalty(Zero, 1))],
                   [w \in WayIds |-> IF w = 2 THEN None
                                     ELSE Some(WithPenalty(Zero, 3))], {})

\* A costing model whose cost_intersection returns
\* TransitionCostResult::impassable() at every intersection, as the host's
\* costing model does when its script fails (demo-app/src/routing.rs).
Blocking ==
    CostingModelOf([w \in WayIds |-> Walk], [p \in WayPairs |-> None],
                   [w \in WayIds |-> None], {})

\* Ways 1 and 2 only; the first intersection leaves way 3, the second
\* leads to way 3, the third goes from way 1 to way 2.
TileStray ==
    Tile("stray", TRUE,
         Some(<<Road(Some(1), "line"), Road(Some(2), "line")>>),
         TRUE,
         Some(<<Inter(Some(3), Some(1), Some(2), Some(0)),
                Inter(Some(1), Some(1), Some(3), Some(0)),
                Inter(Some(1), Some(2), Some(2), Some(0))>>))

IngestLoads ==
    {<<TileMain, Pedestrian>>, <<TileMain, Penalising>>, <<TileMain, Restricting>>,
     <<TileFork, Pedestrian>>, <<TileFork, Penalising>>, <<TileFork, Restricting>>,
     <<TileSmall, Blocking>>, <<TileStray, Pedestrian>>}

InitIngest ==
    /\ wmap = EmptyMaps
    /\ rmap = EmptyMaps
    /\ writer = [w \in Writers |-> IdleWriter]
    /\ calls = 0
    /\ hist = << >>
    /\ search = IdleSearch
    /\ conf = [serial |-> TRUE, writers |-> {1}, clear |-> FALSE,
               loads |-> IngestLoads, starts |-> {}, ends |-> {}]
    /\ crashed = FALSE

SpecIngest == InitIngest /\ [][NextWriters]_vars

\* The transition from a node to itself.
IdentityTransition(n) ==
    WayTransition(n.way, n.distance_along_way_mm, n.way, n.distance_along_way_mm)

\* The ways of the roads layer of a tile, and the search nodes of its
\* intersections layer that have a transition between two of these ways.
RoadWays(tile) ==
    {Unwrap(Unwrap(tile.roads)[i].way_id) : i \in DOMAIN Unwrap(tile.roads)}
GroupedNodes(tile) ==
    {SearchNode(Unwrap(f.way_id), Unwrap(f.distance_along_way)) :
        f \in {Unwrap(tile.inters)[i] : i \in
                 {j \in DOMAIN Unwrap(tile.inters) :
                     /\ Unwrap(Unwrap(tile.inters)[j].way_id) \in RoadWays(tile)
                     /\ Unwrap(Unwrap(tile.inters)[j].transition_to_way)
                            \in RoadWays(tile)}}}

\* A call of ingest_tile has returned Ok and no call has begun since.
IngestJustDone ==
    /\ hist # << >> /\ NoWriterRuns
    /\ LastCall.op = "ingest" /\ LastCall.res = "ok"

\* The pairs a call stored under node n.
StoredUnder(w, n) == {e[2] : e \in {x \in BagToSet(writer[w].staged.transitions) : x[1] = n}}

\* The costing model of the call that writer w is in or made last.
CmOfCall(w) ==
    IF WriterBusy(w) \/ hist = << >> THEN writer[w].cm ELSE LoadOf(LastCall)[2]

\* C27: every (costed, transition) pair that ingest_tile stores under a
\* node n has a transition that leaves n and a costed.to_way_id equal to
\* transition.to_way_id; a to_way_id the costing model left out of its
\* result gets no stored transition; and the identity transition n -> n
\* with the returned continue_cost is stored exactly when the model
\* returned a continue_cost.
StoredTransitionsMatchCosts ==
    \A w \in conf.writers :
        /\ \A e \in BagToSet(writer[w].staged.transitions) :
              /\ e[2].transition.from_way_id = e[1].way
              /\ e[2].transition.distance_along_way_mm = e[1].distance_along_way_mm
              /\ e[2].costed.to_way_id = e[2].transition.to_way_id
              /\ e[2].transition # IdentityTransition(e[1]) =>
                    /\ IsSome(CmOfCall(w).trans[<<e[1].way, e[2].costed.to_way_id>>])
                    /\ e[2].costed.cost
                          = Unwrap(CmOfCall(w).trans[<<e[1].way, e[2].costed.to_way_id>>])
              /\ e[2].transition = IdentityTransition(e[1]) =>
                    /\ IsSome(CmOfCall(w).cont[e[1].way])
                    /\ e[2].costed.cost = Unwrap(CmOfCall(w).cont[e[1].way])
        /\ IngestJustDone =>
              LET load == LoadOf(LastCall)
              IN  \A n \in GroupedNodes(load[1]) :
                      IsSome(load[2].cont[n.way]) <=>
                          \E e \in StoredUnder(w, n) :
                              /\ e.transition = IdentityTransition(n)
                              /\ e.costed = CostedWayTransition(n.way,
                                                Unwrap(load[2].cont[n.way]))

\* The case of C27: a call returned that stored a node with a transition
\* the model costed, without the one it left out and without the identity
\* transition of a node whose continue_cost was None.
TransitionLeftOutAndNoContinue ==
    /\ IngestJustDone
    /\ LoadOf(LastCall) = <<TileFork, Restricting>>
    /\ \E e \in StoredUnder(1, SearchNode(1, 1)) : e.costed.to_way_id = 2
    /\ \A e \in StoredUnder(1, SearchNode(1, 1)) : e.costed.to_way_id # 3
    /\ \E e \in StoredUnder(1, SearchNode(1, 1)) :
          e.transition = IdentityTransition(SearchNode(1, 1))
    /\ StoredUnder(1, SearchNode(2, 0)) # {}
    /\ \A e \in StoredUnder(1, SearchNode(2, 0)) :
          e.transition # IdentityTransition(SearchNode(2, 0))

\* ---------------------------------------------------------------------
\* What a failed call leaves in the write handles (specification Spec)
\* ---------------------------------------------------------------------

\* What the calls of h have staged and no clear has purged: a clear drops
\* all that came before it; a call of ingest_tile adds what it inserted,
\* whether it returned Ok or an error.
RECURSIVE StagedSince(_)
StagedSince(h) ==
    IF h = << >> THEN EmptyMaps
    ELSE LET last == h[Len(h)]
             rest == SubSeq(h, 1, Len(h) - 1)
         IN  IF last.op = "clear" THEN EmptyMaps
             ELSE LET load == LoadOf(last)
                  IN  [m \in MapNames |->
                         StagedSince(rest)[m] (+) Ingested(load[1], load[2]).wr.staged[m]]

\* C28: what a call of ingest_tile staged before it returned an error
\* stays in the write handles: when the next call of ingest_tile that
\* succeeds has refreshed, the readers see the entries of every call since
\* the last clear, failed calls included, and nothing of the calls before
\* that clear.
FailedCallsEntriesStayPending ==
    IngestJustDone => rmap = StagedSince(hist)

\* The case of C28: a call failed after it had staged ways and a node, the
\* next call succeeded, and the readers see the failed call's node.
FailedCallsNodeVisible ==
    /\ IngestJustDone /\ Len(hist) >= 2
    /\ hist[Len(hist) - 1].op = "ingest" /\ hist[Len(hist) - 1].res = "err"
    /\ hist[Len(hist) - 1].tile = "badprop" /\ LastCall.tile = "empty"
    /\ SearchNode(2, 1) \in Get(rmap.nodes, 2)

\* ---------------------------------------------------------------------
\* The nodes map against the ways and transitions maps (specification Spec)
\* ---------------------------------------------------------------------

\* C29: after any sequence of completed calls of ingest_tile and clear,
\* every way that has an entry in the visible nodes map has a WayCoster in
\* the visible ways map.
\* (Violated: nodes_write.insert comes before the test for the way's tags,
\* so an intersection whose way has no feature in the roads layer leaves a
\* node of a way without WayCoster.)
NodeWaysHaveCosters ==
    NoWriterRuns => \A way \in Keys(rmap.nodes) : ContainsKey(rmap.ways, way)

\* The search nodes of the visible nodes map.
VisibleNodes == {e[2] : e \in BagToSet(rmap.nodes)}

\* C30: after ingest_tile returned, every search node of the visible nodes
\* map has at least one transition under it in the visible transitions
\* map.
\* (Violated under SpecIngest: the node of an intersection is stored before
\* its group is costed, and a result without transition_costs and without
\* continue_cost stores nothing under it.)
NodesHaveTransitions ==
    IngestJustDone => \A n \in VisibleNodes : ContainsKey(rmap.transitions, n)

\* ---------------------------------------------------------------------
\* Features that ingest_tile skips (specification SpecIngest)
\* ---------------------------------------------------------------------

\* The tile of the call that writer w is in or made last.
TileOfCall(w) ==
    IF WriterBusy(w) \/ hist = << >> THEN writer[w].tile ELSE LoadOf(LastCall)[1]

\* C31: an intersection feature whose from-way or to-way has no feature in
\* the roads layer of the tile adds no transition to any group and none
\* reaches cost_intersection (nothing is stored for it); the features
\* after it are read, and the call returns Ok.
UntaggedFeatureIsSkipped ==
    \A w \in conf.writers :
        /\ \A n \in DOMAIN writer[w].groups : \A i \in DOMAIN writer[w].groups[n] :
              /\ writer[w].groups[n][i].from_way_id \in RoadWays(TileOfCall(w))
              /\ writer[w].groups[n][i].to_way_id \in RoadWays(TileOfCall(w))
        /\ \A e \in BagToSet(writer[w].staged.transitions) :
              /\ e[2].transition.from_way_id \in RoadWays(TileOfCall(w))
              /\ e[2].transition.to_way_id \in RoadWays(TileOfCall(w))
        /\ (hist # << >> /\ NoWriterRuns /\ LastCall.tile = "stray") =>
              /\ LastCall.res = "ok"
              /\ \A n \in GroupedNodes(TileStray) : StoredUnder(w, n) # {}

\* The case of C31: both features without tags have been read, the third
\* feature has joined a group, and the call has returned Ok.
FeatureAfterSkippedOnesStored ==
    /\ hist # << >> /\ NoWriterRuns
    /\ LastCall.tile = "stray" /\ LastCall.res = "ok"
    /\ StoredUnder(1, SearchNode(1, 2)) # {}
    /\ StoredUnder(1, SearchNode(1, 1)) = {}
    /\ StoredUnder(1, SearchNode(3, 1)) = {}

\* ---------------------------------------------------------------------
\* A result that names a way nobody asked for (specification SpecForeign)
\* ---------------------------------------------------------------------

\* As Pedestrian, but every result of cost_intersection has an entry for
\* way 3 as well, whether the group leads there or not
\* (from_transitions_and_costs_seconds takes any map of way ids).
Misnaming ==
    CostingModelOf([w \in WayIds |-> Walk], [p \in WayPairs |-> Some(Zero)],
                   [w \in WayIds |-> Some(Zero)], {3})

ForeignLoads ==
    {<<TileSmall, Pedestrian>>, <<TileMain, Pedestrian>>, <<TileSmall, Misnaming>>,
     <<TileFork, Misnaming>>}

InitForeign ==
    /\ wmap = EmptyMaps
    /\ rmap = EmptyMaps
    /\ writer = [w \in Writers |-> IdleWriter]
    /\ calls = 0
    /\ hist = << >>
    /\ search = IdleSearch
    /\ conf = [serial |-> TRUE, writers |-> {1}, clear |-> FALSE,
               loads |-> ForeignLoads, starts |-> {}, ends |-> {}]
    /\ crashed = FALSE

SpecForeign == InitForeign /\ [][NextWriters]_vars

\* C32: ingest_tile returns Ok or Err, and does not panic, whatever
\* TransitionCostResult the costing model returns.
\* (Violated under SpecForeign: for a to_way_id that no transition of the
\* group leads to, way_transition_lookup.get(to_way_id).unwrap() panics.)
IngestTileNeverPanics ==
    ~crashed

\* ---------------------------------------------------------------------
\* The order of the pops (specification SpecSearch)
\* ---------------------------------------------------------------------

\* The states of step_log that reached the end node.
LoggedAtEnd == {i \in DOMAIN search.step_log : search.step_log[i].node = search.end}

\* C33: the costs of the states popped from the frontier never decrease
\* from one pop to the next, and when the end node is popped its cost is
\* the least of the costs of all states logged for that node.
PoppedCostsNeverDecrease ==
    /\ [][(search.state # << >> /\ search'.state # << >>)
            => CostLeq(search.state[1].cost, search'.state[1].cost)]_vars
    /\ [](EndPopped =>
            \A i \in LoggedAtEnd :
                CostLeq(search.state[1].cost, search.step_log[i].cost))

\* The case of C33: the end was popped after other states, and it had been
\* logged more than once, at different costs.
EndPoppedAfterCostlierLogged ==
    /\ EndPopped /\ search.result # "panic"
    /\ search.state[1].idx > 1
    /\ \E i \in LoggedAtEnd : CostLess(search.state[1].cost, search.step_log[i].cost)

\* ---------------------------------------------------------------------
\* cost_way_segment over the distances of a search (specification
\* SpecCosting)
\* ---------------------------------------------------------------------

\* The greatest position along a way, in millimetres (i32::MAX, scaled as
\* U64Max and U32Max are: I32Max * 1000 does not overflow u64, while the
\* travel time of I32Max millimetres times a ppm of u32 can).
I32Max == 1000

\* The distances of the segments of a search: |a - b| for two positions.
SegmentDistances == 0..I32Max

\* C34: for a WayCoster with a positive speed in the direction,
\* cost_way_segment never costs a shorter segment more than a longer one,
\* over all the distances a search can produce.
\* (Violated: when travel_time_ms * penalty_ppm overflows, the penalty is
\* zero, and the longer segment is the cheaper one.)
SegmentCostMonotoneInDistance ==
    (/\ Returned("cost_way_segment") /\ IsSome(hist[1].out)
     /\ conf.input.distance \in SegmentDistances) =>
        \A d1 \in 0..conf.input.distance :
            LET shorter == CostWaySegment(conf.input.coster, d1, conf.input.direction)
            IN  IsSome(shorter) /\ CostLeq(Unwrap(shorter), Unwrap(hist[1].out))

\* ---------------------------------------------------------------------
\* The three components of the costs of a search (specification
\* SpecSearch: every transition cost is zero() with or without a penalty)
\* ---------------------------------------------------------------------

\* C35: every cost in step_log has cost_millis >= actual_millis, and along
\* an unwound route actual_millis and distance_mm never decrease.
CostCoversTimeAndRouteGrows ==
    /\ \A i \in DOMAIN search.step_log :
          search.step_log[i].cost.cost_millis >= search.step_log[i].cost.actual_millis
    /\ Unwound =>
          \A k \in 1..(Len(search.route) - 1) :
              /\ search.route[k].cost.actual_millis
                    <= search.route[k + 1].cost.actual_millis
              /\ search.route[k].cost.distance_mm <= search.route[k + 1].cost.distance_mm

\* The case of C35: a route of several steps whose cost carries a penalty
\* and whose travel time and distance grew on the way.
PenalisedRouteUnwound ==
    /\ Unwound /\ Len(search.route) >= 3
    /\ LET last == search.route[Len(search.route)].cost
       IN  /\ last.cost_millis > last.actual_millis
           /\ last.actual_millis > 0 /\ last.distance_mm > 0

\* ---------------------------------------------------------------------
\* How often the costing model is called (specification SpecIngest).
\* Every result of cost_way is inserted into the ways map, and every
\* result of cost_intersection is inserted entry by entry into the
\* transitions map, so the bags a call has staged count the calls.
\* ---------------------------------------------------------------------

\* The ways that the features of tile that leave node n for a way with
\* tags lead to.
ToWaysAt(tile, n) ==
    {Unwrap(Unwrap(tile.inters)[j].transition_to_way) :
        j \in {k \in DOMAIN Unwrap(tile.inters) :
                 /\ Unwrap(Unwrap(tile.inters)[k].way_id) = n.way
                 /\ Unwrap(Unwrap(tile.inters)[k].distance_along_way)
                        = n.distance_along_way_mm
                 /\ n.way \in RoadWays(tile)
                 /\ Unwrap(Unwrap(tile.inters)[k].transition_to_way) \in RoadWays(tile)}}

\* C36: in a call of ingest_tile cost_way is called once for every
\* feature of the roads layer, and cost_intersection once for every
\* distinct search node that a non-skipped intersection feature leaves,
\* with all the transitions recorded for that node: the call has staged
\* one WayCoster per road feature, and under every such node one pair for
\* each way its features lead to that the model costed, and one identity
\* pair if the model returned a continue_cost, each of them once.
CostingCalledOncePerWayAndNode ==
    IngestJustDone =>
        \A w \in conf.writers :
            LET load == LoadOf(LastCall)
                staged == writer[w].staged
            IN  /\ BagCardinality(staged.ways) = Len(Unwrap(load[1].roads))
                /\ Keys(staged.transitions) \subseteq GroupedNodes(load[1])
                /\ \A e \in BagToSet(staged.transitions) :
                      CopiesIn(e, staged.transitions) = 1
                /\ \A n \in GroupedNodes(load[1]) :
                      {e.costed.to_way_id :
                          e \in {x \in StoredUnder(w, n) :
                                   x.transition # IdentityTransition(n)}}
                        = {t \in ToWaysAt(load[1], n) : IsSome(load[2].trans[<<n.way, t>>])}

\* The case of C36: a call on a tile with three features that leave one
\* node, two of them for the same way, has returned.
ForkCostedAsOneGroup ==
    /\ IngestJustDone /\ LastCall.tile = "fork" /\ LastCall.cm = Pedestrian
    /\ {e.costed.to_way_id : e \in StoredUnder(1, SearchNode(1, 1))} = {1, 2, 3}
    /\ BagCardinality(writer[1].staged.transitions) = 5

\* ---------------------------------------------------------------------
\* The four write mutexes (specification SpecLocks).  Here a call is the
\* sequence of its statements of the form
\*     self.<map>_write.lock().map_err(..)?.<insert | purge | refresh>(..)
\* and a step takes the mutex or finishes the statement and drops the
\* guard.  writer[w] is [op, pc, plan, idx, held]; the other variables
\* keep their initial values but for calls and hist.
\* ---------------------------------------------------------------------

\* One statement that locks: the mutex, and whether evaluating the
\* arguments of the call panics while the guard is alive.
LockOf(mutex, panics) == [mutex |-> mutex, panics |-> panics]

RECURSIVE Repeat(_, _)
Repeat(x, n) == IF n = 0 THEN << >> ELSE <<x>> \o Repeat(x, n - 1)

\* The locking statements of a call of ingest_tile, in program order, and
\* how the call ends when no lock fails: every insert and every refresh
\* is one statement.
RECURSIVE IngestLocks(_, _)
IngestLocks(wm, wr) ==
    CASE wr.pc = "road_way" ->
           LET step == RoadWayStep(wm, wr)
               rest == IngestLocks(step.wm, step.wr)
           IN  IF step.wm = wm THEN rest
               ELSE [rest EXCEPT !.locks = <<LockOf("ways", FALSE)>> \o @]
      [] wr.pc = "road_geom" ->
           LET step == RoadGeomStep(wm, wr)
               rest == IngestLocks(step.wm, step.wr)
           IN  [rest EXCEPT !.locks = <<LockOf("geometry", FALSE)>> \o @]
      [] wr.pc = "inter" ->
           LET step == InterStep(wm, wr)
               rest == IngestLocks(step.wm, step.wr)
           IN  IF step.wm = wm THEN rest
               ELSE [rest EXCEPT !.locks = <<LockOf("nodes", FALSE)>> \o @]
      [] wr.pc = "group" ->
           LET step == GroupStep(wm, wr, CHOOSE n \in DOMAIN wr.groups : TRUE)
           IN  IF step.wr.pc = "panic"
               THEN [locks |-> <<LockOf("transitions", TRUE)>>, res |-> "panic"]
               ELSE LET rest == IngestLocks(step.wm, step.wr)
                        inserts == BagCardinality(step.wm.transitions)
                                     - BagCardinality(wm.transitions)
                    IN  [rest EXCEPT !.locks =
                            Repeat(LockOf("transitions", FALSE), inserts) \o @]
      [] wr.pc = "refresh" ->
           [locks |-> [i \in DOMAIN RefreshOrder |-> LockOf(RefreshOrder[i], FALSE)],
            res |-> "ok"]
      [] OTHER -> [locks |-> << >>, res |-> "err"]

\* The locking statements of clear: four purges, then four refreshes.
ClearLocks ==
    [locks |-> [i \in DOMAIN ClearOrder |-> LockOf(ClearOrder[i], FALSE)]
               \o [i \in DOMAIN ClearOrder |-> LockOf(ClearOrder[i], FALSE)],
     res |-> "ok"]

LockLoads == {<<TileSmall, Pedestrian>>, <<TileSmall, Misnaming>>}

IdleLocker ==
    [op |-> "none", pc |-> "idle", plan |-> [locks |-> << >>, res |-> "ok"], idx |-> 0,
     held |-> {}]

InitLocks ==
    /\ wmap = EmptyMaps
    /\ rmap = EmptyMaps
    /\ writer = [w \in Writers |-> IdleLocker]
    /\ calls = 0
    /\ hist = << >>
    /\ search = IdleSearch
    /\ conf = [serial |-> FALSE, writers |-> Writers, clear |-> TRUE,
               loads |-> LockLoads, starts |-> {}, ends |-> {}]
    /\ crashed = FALSE

\* Who holds a mutex, and whether a thread panicked while it held it (the
\* guard is dropped during the unwinding and the mutex is poisoned).
Holders(m) == {w \in Writers : m \in writer[w].held /\ writer[w].pc # "panicked"}
Poisoned(m) == \E w \in Writers : m \in writer[w].held /\ writer[w].pc = "panicked"

\* The call goes on to its next locking statement, or returns.
AfterStatement(w, wr, op_name) ==
    IF wr.idx < Len(wr.plan.locks)
    THEN /\ writer' = [writer EXCEPT ![w] = [wr EXCEPT !.pc = "lock", !.idx = wr.idx + 1]]
         /\ UNCHANGED hist
    ELSE /\ writer' = [writer EXCEPT ![w] = IdleLocker]
         /\ hist' = Append(hist, [op |-> op_name, res |-> wr.plan.res])

LockBeginIngest(w) ==
    /\ writer[w].pc = "idle" /\ calls < MaxCalls
    /\ \E load \in conf.loads :
         AfterStatement(w, [IdleLocker EXCEPT !.op = "ingest",
                               !.plan = IngestLocks(EmptyMaps, BeginIngest(load[1], load[2]))],
                        "ingest")
    /\ calls' = calls + 1
    /\ UNCHANGED <<wmap, rmap, search, conf, crashed>>

LockBeginClear(w) ==
    /\ writer[w].pc = "idle" /\ calls < MaxCalls /\ conf.clear
    /\ AfterStatement(w, [IdleLocker EXCEPT !.op = "clear", !.plan = ClearLocks], "clear")
    /\ calls' = calls + 1
    /\ UNCHANGED <<wmap, rmap, search, conf, crashed>>

\* Mutex::lock: the thread blocks while another thread holds the mutex; it
\* gets the guard, or Err when the mutex is poisoned, and then `?` returns
\* the error from the call.
LockAcquire(w) ==
    /\ writer[w].pc = "lock"
    /\ LET m == writer[w].plan.locks[writer[w].idx].mutex
       IN  /\ Holders(m) = {}
           /\ IF Poisoned(m)
              THEN /\ writer' = [writer EXCEPT ![w] = IdleLocker]
                   /\ hist' = Append(hist, [op |-> writer[w].op, res |-> "err"])
              ELSE /\ writer' = [writer EXCEPT ![w].pc = "locked", ![w].held = @ \cup {m}]
                   /\ UNCHANGED hist
    /\ UNCHANGED <<wmap, rmap, calls, search, conf, crashed>>

\* The rest of the statement: the insert, purge or refresh, then the drop
\* of the guard; or the panic of the thread.
LockRelease(w) ==
    /\ writer[w].pc = "locked"
    /\ IF writer[w].plan.locks[writer[w].idx].panics
       THEN /\ writer' = [writer EXCEPT ![w].pc = "panicked"]
            /\ UNCHANGED hist
       ELSE AfterStatement(w, [writer[w] EXCEPT !.held = {}], writer[w].op)
    /\ UNCHANGED <<wmap, rmap, calls, search, conf, crashed>>

NextLocks ==
    \/ \E w \in Writers : LockBeginIngest(w)
    \/ \E w \in Writers : LockBeginClear(w)
    \/ \E w \in Writers : LockAcquire(w)
    \/ \E w \in Writers : LockRelease(w)

SpecLocks == InitLocks /\ [][NextLocks]_vars

\* A thread waits for a mutex that no step of any thread will ever free.
Deadlocked ==
    \E w \in Writers :
        /\ writer[w].pc = "lock"
        /\ \A v \in Holders(writer[w].plan.locks[writer[w].idx].mutex) :
              writer[v].pc # "locked"
        /\ Holders(writer[w].plan.locks[writer[w].idx].mutex) # {}

\* C37: a call of ingest_tile or clear never holds two of the four write
\* mutexes, no mutex has two holders, no interleaving of the calls ends in
\* a deadlock, and every call runs to its return.
\* (Violated in its last part: a call of ingest_tile can panic, and it
\* does so with the mutex of the transitions map held.)
CallsHoldOneMutexAndComplete ==
    /\ \A w \in Writers : Cardinality(writer[w].held) <= 1
    /\ \A m \in MapNames : Cardinality(Holders(m)) <= 1
    /\ ~Deadlocked
    /\ \A w \in Writers : writer[w].pc # "panicked"

\* ---------------------------------------------------------------------
\* A tile ingested twice (specification SpecTwice)
\* ---------------------------------------------------------------------

\* Two calls of ingest_tile with the same tile and costing model have
\* returned Ok, no clear between them; then one search.
InitTwice ==
    /\ \E cm \in SearchCms :
         LET once == Ingested(TileMain, cm)
             twice == RunIngest(once.wm, BeginIngest(TileMain, cm))
         IN  /\ once.wr.pc = "refresh" /\ twice.wr.pc = "refresh"
             /\ wmap = twice.wm
             /\ rmap = twice.wm
             /\ writer = [w \in Writers |->
                            IF w = 1 THEN [IdleWriter EXCEPT !.staged = twice.wr.staged,
                                                            !.before = once.wm]
                            ELSE IdleWriter]
             /\ hist = <<Completed([once.wr EXCEPT !.pc = "return_ok"]),
                         Completed([twice.wr EXCEPT !.pc = "return_ok"])>>
             /\ conf = [serial |-> TRUE, writers |-> {}, clear |-> FALSE,
                        loads |-> {<<TileMain, cm>>},
                        starts |-> SearchStarts, ends |-> SearchEnds]
    /\ calls = 2
    /\ search = IdleSearch
    /\ crashed = FALSE

SpecTwice == InitTwice /\ [][NextSearch]_vars

\* The reference run of the search in progress on the graph that one call
\* of ingest_tile leaves.
RunAfterOneIngest ==
    LET load == LoadOf(LastCall)
        first_state == SearchState(0, 0, search.start, search.start, Zero)
    IN  SearchInOrder(VisibleAfterOne(load[1], load[2]), search.end,
                      [frontier |-> {first_state}, costs |-> NoGroups,
                       step_log |-> <<first_state>>])

Expanding == search.pc \in {"identity", "after", "before"}

\* The popped state costs more than the best cost recorded for its node.
StalePopped ==
    /\ search.state # << >>
    /\ search.state[1].node \in DOMAIN search.costs
    /\ CostLess(search.costs[search.state[1].node], search.state[1].cost)

\* C39 as stated: the expansion of a popped state that costs more than the
\* recorded best cost of its node pushes no state and changes neither the
\* best-cost map nor step_log.
StaleExpansionChangesNothing ==
    [][(Expanding /\ StalePopped) =>
          /\ search'.frontier = search.frontier
          /\ search'.costs = search.costs
          /\ search'.step_log = search.step_log]_vars

\* C39: as long as no cost the search logged has a component at u64::MAX,
\* the expansion of a popped state that costs more than the recorded best
\* cost of its node pushes no state and changes neither the best-cost map
\* nor step_log.
StaleExpansionChangesNothingUnsaturated ==
    [][(Expanding /\ StalePopped /\ SearchUnsaturated') =>
          /\ search'.frontier = search.frontier
          /\ search'.costs = search.costs
          /\ search'.step_log = search.step_log]_vars

\* The case of C39: a stale state has been expanded, its last group had
\* transitions, and no logged cost is saturated.
StaleStateExpanded ==
    /\ search.pc = "pop" /\ StalePopped /\ SearchUnsaturated
    /\ \E kind \in {"identity", "after", "before"} :
          LET via == SelectGroup(kind, search.all_nodes, search.state[1].node)
          IN  IsSome(via) /\ search.groups[Unwrap(via)] # EmptyBag

\* ---------------------------------------------------------------------
\* States that lead back to the start node (specification SpecSearch)
\* ---------------------------------------------------------------------

\* A state other than the root that stands on the start node.
BackAtStart(st) == st.idx # 0 /\ st.node = search.start

\* The popped state is a state other than the root on the start node.
BackAtStartPopped == search.state # << >> /\ BackAtStart(search.state[1])

\* C40: the best-cost map holds the start node only once a state other
\* than the root was logged for it; the expansion of such a state pushes no
\* state and changes neither the best-cost map nor step_log; no logged state
\* has such a state as its predecessor, and a returned route holds none.
RootUnrecordedAndReturnHarmless ==
    /\ [](search.pc # "idle" =>
            /\ search.start \in DOMAIN search.costs =>
                  \E i \in DOMAIN search.step_log :
                      /\ BackAtStart(search.step_log[i])
                      /\ CostLeq(Zero, search.step_log[i].cost)
            /\ \A i \in DOMAIN search.step_log :
                  search.step_log[i].previous # 0 =>
                      ~BackAtStart(search.step_log[search.step_log[i].previous + 1])
            /\ search.pc \in {"polyline", "done"} =>
                  \A i \in DOMAIN search.route :
                      ~BackAtStart(search.route[i]))
    /\ [][(Expanding /\ BackAtStartPopped) =>
            /\ search'.frontier = search.frontier
            /\ search'.costs = search.costs
            /\ search'.step_log = search.step_log]_vars

\* The case of C40: a state that leads back to the start node at no lower
\* cost than the root's was logged, popped and expanded over a group with
\* transitions, and the search went on to return a route.
ReturnedAfterExpandingBackAtStart ==
    /\ search.pc = "done" /\ search.result = "route" /\ Len(search.route) >= 2
    /\ \E i \in DOMAIN search.step_log :
          /\ BackAtStart(search.step_log[i])
          /\ search.step_log[i] \notin search.frontier
    /\ ContainsKey(rmap.transitions, search.start)

====
